---- MODULE Spec2Model ----
(***************************************************************************)
(* Model of the Anthropic <-> OpenAI translation core of the fal/OpenRouter *)
(* worker (src/fal-openrouter-proxy/cloudflare-worker-fal-openrouter.js).   *)
(*                                                                         *)
(* The Stream Transcoder (createStreamTransformer) is a closure over the   *)
(* StreamState variables below; its transform(chunk, controller) step is   *)
(* the action Transform.  A backend line is modelled by what the code      *)
(* reads from it; money is counted in units of 1e-8 dollar and prices in   *)
(* units of 0.01 dollar per million tokens, so that pricing.x / 1_000_000  *)
(* is the integer pricing.x in cost units per token (exact arithmetic; the *)
(* rounding error of IEEE doubles is not modelled).                        *)
(***************************************************************************)
EXTENDS Integers, Sequences, FiniteSets, TLC

VARIABLES
  buffer,               \* the partial line held across chunk boundaries
  totalPromptTokens,
  outputTokens,
  cacheCreationTokens,
  cacheReadTokens,
  totalCost,
  sentStart,
  textBlockStarted,
  toolCallsStarted,     \* Map id -> {index, name}, in insertion order
  toolCallNames,        \* Map backend tool index -> accumulated name
  finalStopReason,
  contentBlocksStopped,
  pricing,              \* what getModelPricing(anthropicBody.model) returns
  out,                  \* the events enqueued on the controller so far
  fed,                  \* the complete backend lines delivered so far
  backendEnded,         \* the backend's response body has ended
  estArgs,              \* the arguments of a call of the cache-token estimator
  estAsync,             \* what estimateCacheTokensFromCost returned for them
  estSync,              \* what estimateCacheTokensFromCostSync returned
  openaiResponse,       \* the backend's JSON response (non-streaming path)
  anthropicResponse,    \* what convertOpenAIToAnthropic made of it
  anthropicBody,        \* the client's MessagesRequest
  openaiBody,           \* what convertAnthropicToOpenAI made of it
  modelPricingCache,    \* the remote price table kept by the worker, or null
  pricingCacheTime,     \* Date.now() when it was stored
  now,                  \* Date.now()
  lookups,              \* the calls of getModelPricing under way
  instances,            \* the transformers of the streams open at once
  request,              \* the inbound request of the worker
  handlerAt,            \* how far the request's handler has run
  backendCalls,         \* its calls of fetch on the backend, with their ends
  responses,            \* the responses it returned
  transcoderStarted     \* whether createStreamTransformer was called

streamVars == << buffer, totalPromptTokens, outputTokens, cacheCreationTokens,
                 cacheReadTokens, totalCost, sentStart, textBlockStarted,
                 toolCallsStarted, toolCallNames, finalStopReason,
                 contentBlocksStopped, out, fed, backendEnded >>
estimatorVars == << estArgs, estAsync, estSync >>
responseVars == << openaiResponse, anthropicResponse >>
requestVars == << anthropicBody, openaiBody >>
resolverVars == << modelPricingCache, pricingCacheTime, now, lookups >>
handlerVars == << request, handlerAt, backendCalls, responses,
                  transcoderStarted >>
serverVars == << resolverVars, instances, handlerVars >>

vars == << streamVars, pricing, estimatorVars, responseVars, requestVars,
           serverVars >>

\* ------------------------------------------------------------------ bounds
MaxLines == 3
MaxHundreds == 3
MaxBlocks == 2
MaxContext == 1
\* tool calls in one backend message
MaxCalls == 2
\* days the clock advances while price lookups are made
MaxDays == 7
\* lines delivered to each of the streams open at once
MaxStreamLines == 2
\* lines of a stream whose blocks are closed
MaxClosingLines == 4
\* lines of a stream that spells tool names
MaxNameLines == 3
\* lines of a stream of text, tool arguments and a finish_reason
MaxDeltaLines == 3
\* lines of a stream that the backend ends
MaxEndLines == 3
\* lines of a stream that reports the usage of a response
MaxPathLines == 3
\* lines of a stream whose prices may change under way
MaxPricedLines == 2
\* weeks that pass while it is open
MaxWeeks == 1
MaxChunk == 2
MaxTextLines == 4
MaxFinishLines == 3
MaxUsageLines == 4
MaxBodyLines == 3

\* ------------------------------------------------------------ backend lines
ToolIndices == {0, 1}

\* a parsed chunk without a usage object
NoUsage == [present |-> FALSE]
\* a usage object; a field that is absent or zero is 0
Usage(prompt, completion, cost, dCached, cRead, cached, cCreation, dCreation) ==
  [present |-> TRUE, prompt_tokens |-> prompt,
   completion_tokens |-> completion, cost |-> cost,
   details_cached_tokens |-> dCached,
   cache_read_input_tokens |-> cRead, cached_tokens |-> cached,
   cache_creation_input_tokens |-> cCreation,
   details_cache_creation_tokens |-> dCreation]

\* a line of the backend stream: OtherLine is a line without the "data: "
\* prefix, DoneLine is "data: [DONE]", MalformedLine is a data line whose
\* payload JSON.parse rejects, Line(...) is a parsed chat.completion.chunk
OtherLine == [kind |-> "other"]
DoneLine == [kind |-> "done"]
MalformedLine == [kind |-> "malformed"]
Line(usage, choice, content, tool_calls, finish_reason) ==
  [kind |-> "json", usage |-> usage, choice |-> choice, content |-> content,
   tool_calls |-> tool_calls, finish_reason |-> finish_reason]

\* usage: 1000 prompt tokens of which 500 were billed as cache reads
UsageA == Usage(1000, 100, 315000, 0, 0, 0, 0, 0)
\* usage: no prompt count, explicit cache counts, no cost
UsageB == Usage(0, 50, 0, 0, 200, 0, 30, 0)

UsageLineA == Line(UsageA, FALSE, "", << >>, "")
UsageLineB == Line(UsageB, FALSE, "", << >>, "")
RoleLine == Line(NoUsage, TRUE, "", << >>, "")
TextLine(t) == Line(NoUsage, TRUE, t, << >>, "")
ToolCall(index, id, name, arguments) ==
  [index |-> index, id |-> id, name |-> name, arguments |-> arguments]
ToolLine(tc) == Line(NoUsage, TRUE, "", << tc >>, "")
FinishLine(f) == Line(NoUsage, TRUE, "", << >>, f)

ToolStartLine == ToolLine(ToolCall(0, "call_a", "get_", ""))
ToolArgsLine == ToolLine(ToolCall(0, "", "", "{}"))

\* the lines of the general specification
Lines ==
  { OtherLine, DoneLine, MalformedLine, UsageLineA, RoleLine,
    TextLine("Hi"), ToolStartLine, ToolArgsLine,
    FinishLine("stop"), FinishLine("tool_calls") }

\* a plain text stream
TextLines ==
  { TextLine("Hi"), TextLine(" there"), FinishLine("stop"), DoneLine,
    OtherLine }

\* every kind of finish_reason
FinishReasons == {"stop", "tool_calls", "function_call", "length",
                  "content_filter"}
FinishLines ==
  { TextLine("Hi"), ToolStartLine, DoneLine }
    \cup { FinishLine(f) : f \in FinishReasons }

\* the body of a stream: content and tool calls, before any finish_reason
\* and before the sentinel
BodyLines ==
  { RoleLine, TextLine("Hi"), TextLine(" there"), ToolStartLine,
    ToolArgsLine, OtherLine }

\* usage reported before, between and after the content
UsageLines ==
  { UsageLineA, UsageLineB, RoleLine, TextLine("Hi"), FinishLine("stop"),
    DoneLine }

\* no partial line: the buffer is the empty string
NoLine == [kind |-> "none"]

\* ------------------------------------------------------------------ pricing
NoPricing == [known |-> FALSE, input |-> 0, output |-> 0,
              cacheRead |-> 0, cacheWrite |-> 0]
\* MODEL_PRICING_FALLBACK["anthropic/claude-sonnet-4.5"] as getModelPricing
\* returns it: cacheRead = 0.1 * input, cacheWrite = 1.25 * input
SonnetPricing == [known |-> TRUE, input |-> 300, output |-> 1500,
                  cacheRead |-> 30, cacheWrite |-> 375]
Pricings == {NoPricing, SonnetPricing}
\* a model whose OpenRouter entry has no input_cache_read and no
\* input_cache_write price: fetchModelPricing stores 0 for both
FreeReadPricing == [known |-> TRUE, input |-> 300, output |-> 1500,
                    cacheRead |-> 0, cacheWrite |-> 0]
\* a free model: every price of its OpenRouter entry is "0"
ZeroPricing == [known |-> TRUE, input |-> 0, output |-> 0,
                cacheRead |-> 0, cacheWrite |-> 0]
EstimatorPricings == {NoPricing, SonnetPricing, FreeReadPricing, ZeroPricing}


\* ------------------------------------------------------------ helper maths
Max(a, b) == IF a >= b THEN a ELSE b
Min(a, b) == IF a <= b THEN a ELSE b
Abs(a) == IF a >= 0 THEN a ELSE -a
\* Math.round(n / d) for d > 0: the nearest integer, halves rounded up
Round(n, d) == (2 * n + d) \div (2 * d)

\* ------------------------------------------------- Cache-Token Estimator
\* faulty variant: a cached token is taken to save the whole input price
FullInputSaving(p) == p.input

\* inputPrice * cacheReadDiscount: inputPrice - cacheReadPrice when
\* inputPrice > 0, and 0 * 0.9 = 0 otherwise
ReadSaving(p) == IF p.input > 0 THEN p.input - p.cacheRead ELSE 0
\* inputPrice * cacheWriteExtra: cacheWritePrice - inputPrice when
\* inputPrice > 0, and 0 * 0.25 = 0 otherwise
WriteExtra(p) == IF p.input > 0 THEN p.cacheWrite - p.input ELSE 0
\* cacheReadDiscount > 0 and cacheWriteExtra > 0 (0.9 and 0.25 when the
\* input price is zero)
ReadDiscountPositive(p) == IF p.input > 0 THEN p.input > p.cacheRead ELSE TRUE
WriteExtraPositive(p) == IF p.input > 0 THEN p.cacheWrite > p.input ELSE TRUE

NormalCost(promptTokens, completionTokens, p) ==
  promptTokens * p.input + completionTokens * p.output

\* faulty variant: the cache-write count of the hint branch is not clamped
EstimateWithHintUnclamped(promptTokens, completionTokens, cost, p, cachedTokens) ==
  LET extraCost == cost - (NormalCost(promptTokens, completionTokens, p)
                             - cachedTokens * ReadSaving(p))
  IN  [cacheReadTokens |-> cachedTokens,
       cacheCreationTokens |->
         IF 10 * extraCost > p.input /\ WriteExtra(p) > 0
           THEN Round(extraCost, WriteExtra(p)) ELSE 0]

\* faulty variant: the candidate of the no-hint branch is not range-checked
EstimateNoHintUnchecked(promptTokens, completionTokens, cost, p) ==
  LET costDiff == cost - NormalCost(promptTokens, completionTokens, p)
  IN  IF Abs(costDiff) < p.input * 10
        THEN [cacheReadTokens |-> 0, cacheCreationTokens |-> 0]
      ELSE IF costDiff > 0 /\ WriteExtra(p) > 0
        THEN [cacheReadTokens |-> 0,
              cacheCreationTokens |-> Round(costDiff, WriteExtra(p))]
      ELSE IF costDiff < 0 /\ ReadSaving(p) > 0
        THEN [cacheReadTokens |-> Round(-costDiff, ReadSaving(p)),
              cacheCreationTokens |-> 0]
      ELSE [cacheReadTokens |-> 0, cacheCreationTokens |-> 0]

\* faulty variant: the no-hint branch has no tolerance band
EstimateNoHintNoTolerance(promptTokens, completionTokens, cost, p) ==
  LET costDiff == cost - NormalCost(promptTokens, completionTokens, p)
      inRange(n) == n > 0 /\ n <= promptTokens
  IN  IF costDiff > 0 /\ WriteExtra(p) > 0
         /\ inRange(Round(costDiff, WriteExtra(p)))
        THEN [cacheReadTokens |-> 0,
              cacheCreationTokens |-> Round(costDiff, WriteExtra(p))]
      ELSE IF costDiff < 0 /\ ReadSaving(p) > 0
              /\ inRange(Round(-costDiff, ReadSaving(p)))
        THEN [cacheReadTokens |-> Round(-costDiff, ReadSaving(p)),
              cacheCreationTokens |-> 0]
      ELSE [cacheReadTokens |-> 0, cacheCreationTokens |-> 0]

\* the branch taken when the backend reported a cache-read count
EstimateWithHint(promptTokens, completionTokens, cost, p, cachedTokens) ==
  LET expectedCost == NormalCost(promptTokens, completionTokens, p)
                        - cachedTokens * ReadSaving(p)
      extraCost == cost - expectedCost
      cacheWrite ==
        IF 10 * extraCost > p.input /\ WriteExtraPositive(p)
          THEN IF WriteExtra(p) > 0
                 THEN Max(0, Min(Round(extraCost, WriteExtra(p)),
                                 promptTokens - cachedTokens))
                 \* a division by zero gives Infinity, which Math.min cuts
                 ELSE Max(0, promptTokens - cachedTokens)
          ELSE 0
  IN  [cacheReadTokens |-> cachedTokens, cacheCreationTokens |-> cacheWrite]

\* the branch taken without a cache-read count
EstimateNoHint(promptTokens, completionTokens, cost, p) ==
  LET costDiff == cost - NormalCost(promptTokens, completionTokens, p)
      tolerance == p.input * 10
      zero == [cacheReadTokens |-> 0, cacheCreationTokens |-> 0]
  IN  IF Abs(costDiff) < tolerance THEN zero
      ELSE IF costDiff > 0 /\ WriteExtraPositive(p)
        THEN \* with a zero divisor the quotient is Infinity: out of range
             IF WriteExtra(p) > 0
                /\ Round(costDiff, WriteExtra(p)) > 0
                /\ Round(costDiff, WriteExtra(p)) <= promptTokens
               THEN [cacheReadTokens |-> 0,
                     cacheCreationTokens |-> Round(costDiff, WriteExtra(p))]
               ELSE zero
      ELSE IF costDiff < 0 /\ ReadDiscountPositive(p)
        THEN IF ReadSaving(p) > 0
                /\ Round(-costDiff, ReadSaving(p)) > 0
                /\ Round(-costDiff, ReadSaving(p)) <= promptTokens
               THEN [cacheReadTokens |-> Round(-costDiff, ReadSaving(p)),
                     cacheCreationTokens |-> 0]
               ELSE zero
      ELSE zero

\* faulty variant: the synchronous estimator without its early return
EstimateSyncUnguarded(promptTokens, completionTokens, cost, p, cachedTokens) ==
  IF cachedTokens > 0
    THEN EstimateWithHint(promptTokens, completionTokens, cost, p, cachedTokens)
  ELSE EstimateNoHint(promptTokens, completionTokens, cost, p)

estimateCacheTokensFromCostSync(promptTokens, completionTokens, cost, p, cachedTokens) ==
  IF promptTokens <= 0 \/ cost <= 0 \/ ~p.known
    THEN [cacheReadTokens |-> cachedTokens, cacheCreationTokens |-> 0]
  ELSE IF cachedTokens > 0
    THEN EstimateWithHint(promptTokens, completionTokens, cost, p, cachedTokens)
  ELSE EstimateNoHint(promptTokens, completionTokens, cost, p)

\* the asynchronous estimator; p is what its getModelPricing(model) returned
\* (NoPricing: null).  Past its two early returns its body is the same text
\* as the synchronous one's.
estimateCacheTokensFromCost(promptTokens, completionTokens, cost, p, cachedTokens) ==
  IF promptTokens <= 0 \/ cost <= 0
    THEN [cacheReadTokens |-> 0, cacheCreationTokens |-> 0]
  ELSE IF ~p.known
    THEN [cacheReadTokens |-> cachedTokens, cacheCreationTokens |-> 0]
  ELSE IF cachedTokens > 0
    THEN EstimateWithHint(promptTokens, completionTokens, cost, p, cachedTokens)
  ELSE EstimateNoHint(promptTokens, completionTokens, cost, p)

\* ------------------------------------------------------------- SSE events
\* encodeSSE(event, data), reduced to the fields of data that vary
MessageStart(inputTokens, outTokens) ==
  [type |-> "message_start", input_tokens |-> inputTokens,
   output_tokens |-> outTokens]
TextBlockStart ==
  [type |-> "content_block_start", index |-> 0, block |-> "text",
   id |-> "", name |-> ""]
ToolBlockStart(index, id, name) ==
  [type |-> "content_block_start", index |-> index, block |-> "tool_use",
   id |-> id, name |-> name]
TextDelta(t) ==
  [type |-> "content_block_delta", index |-> 0, delta |-> "text_delta",
   text |-> t]
InputJsonDelta(index, partial) ==
  [type |-> "content_block_delta", index |-> index,
   delta |-> "input_json_delta", text |-> partial]
BlockStop(index) == [type |-> "content_block_stop", index |-> index]
MessageDelta(stopReason, inputTokens, outTokens, cacheCreation, cacheRead) ==
  [type |-> "message_delta", stop_reason |-> stopReason,
   input_tokens |-> inputTokens, output_tokens |-> outTokens,
   cache_creation_input_tokens |-> cacheCreation,
   cache_read_input_tokens |-> cacheRead]
MessageStop == [type |-> "message_stop"]

\* ------------------------------------------------------------ StreamState
\* the closure variables of one transformer (without the line buffer),
\* the controller's queue, and whether transform has returned
State ==
  [totalPromptTokens |-> totalPromptTokens, outputTokens |-> outputTokens,
   cacheCreationTokens |-> cacheCreationTokens,
   cacheReadTokens |-> cacheReadTokens, totalCost |-> totalCost,
   sentStart |-> sentStart, textBlockStarted |-> textBlockStarted,
   toolCallsStarted |-> toolCallsStarted, toolCallNames |-> toolCallNames,
   finalStopReason |-> finalStopReason,
   contentBlocksStopped |-> contentBlocksStopped,
   out |-> out, returned |-> FALSE]

Enqueue(s, events) == [s EXCEPT !.out = s.out \o events]

\* x || y on numbers
Or(x, y) == IF x # 0 THEN x ELSE y

\* faulty variant: the sentinel of an empty stream sends message_start without the
\* empty text block
ProcessDoneNoBlock(s, p) ==
  LET inputTokens == Max(0, s.totalPromptTokens - s.cacheReadTokens
                              - s.cacheCreationTokens)
  IN  [s EXCEPT !.out = s.out
                  \o (IF ~s.sentStart
                        THEN << MessageStart(inputTokens, s.outputTokens) >>
                        ELSE << >>)
                  \o << MessageDelta(s.finalStopReason, inputTokens,
                                     s.outputTokens, s.cacheCreationTokens,
                                     s.cacheReadTokens),
                        MessageStop >>,
                !.returned = TRUE]

\* the "[DONE]" branch of transform
ProcessDone(s, p) ==
  LET estimated ==
        IF s.totalCost > 0 /\ p.known
          THEN estimateCacheTokensFromCostSync(s.totalPromptTokens,
                  s.outputTokens, s.totalCost, p, s.cacheReadTokens)
          ELSE [cacheReadTokens |-> s.cacheReadTokens,
                cacheCreationTokens |-> s.cacheCreationTokens]
      inputTokens == Max(0, s.totalPromptTokens - estimated.cacheReadTokens
                              - estimated.cacheCreationTokens)
      minimal ==
        IF ~s.sentStart
          THEN << MessageStart(inputTokens, s.outputTokens),
                  TextBlockStart, BlockStop(0) >>
          ELSE << >>
      final ==
        << MessageDelta(s.finalStopReason, inputTokens, s.outputTokens,
                        estimated.cacheCreationTokens,
                        estimated.cacheReadTokens),
           MessageStop >>
  IN  [s EXCEPT !.cacheReadTokens = estimated.cacheReadTokens,
                !.cacheCreationTokens = estimated.cacheCreationTokens,
                !.out = s.out \o minimal \o final,
                !.returned = TRUE]

\* if (parsed.usage) { ... }
UpdateUsage(s, u) ==
  IF ~u.present THEN s
  ELSE [s EXCEPT
    !.totalPromptTokens = Or(u.prompt_tokens, s.totalPromptTokens),
    !.outputTokens = Or(u.completion_tokens, s.outputTokens),
    !.totalCost = Or(u.cost, s.totalCost),
    !.cacheReadTokens =
       Or(u.details_cached_tokens,
          Or(u.cache_read_input_tokens,
             Or(u.cached_tokens, s.cacheReadTokens))),
    !.cacheCreationTokens =
       Or(u.cache_creation_input_tokens,
          Or(u.details_cache_creation_tokens, s.cacheCreationTokens))]

\* if (!sentStart) { sentStart = true; enqueue message_start }
SendStart(s) ==
  IF s.sentStart THEN s
  ELSE Enqueue([s EXCEPT !.sentStart = TRUE],
               << MessageStart(s.totalPromptTokens, 0) >>)

\* faulty variant: textBlockStarted is never set, every text delta opens the block
HandleContentReopen(s, content) ==
  IF content = "" THEN s
  ELSE Enqueue(s, << TextBlockStart, TextDelta(content) >>)

\* if (delta?.content) { ... }
HandleContent(s, content) ==
  IF content = "" THEN s
  ELSE IF ~s.textBlockStarted
    THEN Enqueue([s EXCEPT !.textBlockStarted = TRUE],
                 << TextBlockStart, TextDelta(content) >>)
    ELSE Enqueue(s, << TextDelta(content) >>)

HasId(started, id) == \E k \in 1..Len(started) : started[k].id = id

\* the index a tool call's events carry
AnthropicIndex(textStarted, tcIndex) ==
  IF textStarted THEN tcIndex + 1 ELSE tcIndex

\* the body of the loop over delta.tool_calls, for one tool call tc
HandleToolCall(s, tc) ==
  LET anthropicIndex == AnthropicIndex(s.textBlockStarted, tc.index)
      names == IF tc.name # ""
                 THEN [s.toolCallNames EXCEPT ![tc.index] = @ \o tc.name]
                 ELSE s.toolCallNames
      opens == tc.id # "" /\ ~HasId(s.toolCallsStarted, tc.id)
      name == names[tc.index]
      s1 == [s EXCEPT !.toolCallNames = names]
      s2 == IF opens
              THEN Enqueue(
                     [s1 EXCEPT !.toolCallsStarted =
                        Append(@, [id |-> tc.id, index |-> anthropicIndex,
                                   name |-> name])],
                     << ToolBlockStart(anthropicIndex, tc.id, name) >>)
              ELSE s1
  IN  IF tc.arguments # ""
        THEN Enqueue(s2, << InputJsonDelta(anthropicIndex, tc.arguments) >>)
        ELSE s2

RECURSIVE HandleToolCalls(_, _)
HandleToolCalls(s, tcs) ==
  IF tcs = << >> THEN s
  ELSE HandleToolCalls(HandleToolCall(s, Head(tcs)), Tail(tcs))

\* faulty variant: the streaming path forgets function_call
StreamStopReasonNoFunctionCall(finishReason, current) ==
  IF finishReason = "tool_calls" THEN "tool_use"
  ELSE IF finishReason = "length" THEN "max_tokens"
  ELSE current

\* the stop reason the streaming path derives from the first finish_reason
StreamStopReason(finishReason, current) ==
  IF finishReason = "tool_calls" \/ finishReason = "function_call"
    THEN "tool_use"
  ELSE IF finishReason = "length" THEN "max_tokens"
  ELSE current

\* the stop reason convertOpenAIToAnthropic derives from choice.finish_reason
StopReasonOf(finishReason) ==
  IF finishReason = "tool_calls" \/ finishReason = "function_call"
    THEN "tool_use"
  ELSE IF finishReason = "length" THEN "max_tokens"
  ELSE "end_turn"

\* the content_block_stop events of the closing pass
ClosingEvents(s) ==
  IF ~s.textBlockStarted /\ Len(s.toolCallsStarted) = 0
    THEN << TextBlockStart, BlockStop(0) >>
    ELSE (IF s.textBlockStarted THEN << BlockStop(0) >> ELSE << >>)
           \o [k \in 1..Len(s.toolCallsStarted) |->
                 BlockStop(s.toolCallsStarted[k].index)]

\* faulty variant: message_delta is sent with the finish_reason, not at the sentinel
HandleFinishWithDelta(s, finishReason) ==
  IF finishReason = "" \/ s.contentBlocksStopped THEN s
  ELSE Enqueue(
         [s EXCEPT !.contentBlocksStopped = TRUE,
                   !.finalStopReason =
                      StreamStopReason(finishReason, s.finalStopReason)],
         ClosingEvents(s)
           \o << MessageDelta(StreamStopReason(finishReason, s.finalStopReason),
                              s.totalPromptTokens, s.outputTokens,
                              s.cacheCreationTokens, s.cacheReadTokens) >>)

\* faulty variant: contentBlocksStopped is not looked at, every
\* finish_reason closes the blocks
HandleFinishEveryTime(s, finishReason) ==
  IF finishReason = "" THEN s
  ELSE Enqueue(
         [s EXCEPT !.contentBlocksStopped = TRUE,
                   !.finalStopReason =
                      StreamStopReason(finishReason, s.finalStopReason)],
         ClosingEvents(s))

\* if (finishReason && !contentBlocksStopped) { ... }
HandleFinish(s, finishReason) ==
  IF finishReason = "" \/ s.contentBlocksStopped THEN s
  ELSE Enqueue(
         [s EXCEPT !.contentBlocksStopped = TRUE,
                   !.finalStopReason =
                      StreamStopReason(finishReason, s.finalStopReason)],
         ClosingEvents(s))

\* the try block, for a payload JSON.parse accepted
ProcessParsed(s, line) ==
  LET s1 == UpdateUsage(s, line.usage)
  IN  IF ~line.choice THEN s1
      ELSE HandleFinish(
             HandleToolCalls(HandleContent(SendStart(s1), line.content),
                             line.tool_calls),
             line.finish_reason)

\* faulty variant: a payload JSON.parse rejects ends the processing of the chunk
ProcessLineAbort(s, line, p) ==
  IF line.kind = "other" THEN s
  ELSE IF line.kind = "done" THEN ProcessDone(s, p)
  ELSE IF line.kind = "malformed" THEN [s EXCEPT !.returned = TRUE]
  ELSE ProcessParsed(s, line)

\* one iteration of the loop over the lines of a chunk
ProcessLine(s, line, p) ==
  IF line.kind = "other" THEN s
  ELSE IF line.kind = "done" THEN ProcessDone(s, p)
  ELSE IF line.kind = "malformed" THEN s
  ELSE ProcessParsed(s, line)

\* the loop over the complete lines of a chunk; it ends at "[DONE]"
RECURSIVE ProcessLines(_, _, _)
ProcessLines(s, ls, p) ==
  IF ls = << >> \/ s.returned THEN s
  ELSE ProcessLines(ProcessLine(s, Head(ls), p), Tail(ls), p)

\* ----------------------------------------------------- Request Translator
\* a content, a system prompt or a tool input is a string, an array, an
\* object or null in the code; the model tags the value with its kind and
\* names its field after the kind
Str(s) == [kind |-> "string", value |-> s]
Arr(blocks) == [kind |-> "array", blocks |-> blocks]
Obj(o) == [kind |-> "object", object |-> o]
Null == [kind |-> "null"]

\* Anthropic content blocks; cache_control "" is an absent marker, and
\* citations stands for the fields of a text block the translator drops
TextBlock(text, cache_control) ==
  [type |-> "text", text |-> text, cache_control |-> cache_control,
   citations |-> << >>]
ImageBlock(media_type, data) ==
  [type |-> "image", cache_control |-> "",
   source |-> [type |-> "base64", media_type |-> media_type, data |-> data]]
ToolUse(id, name, input) ==
  [type |-> "tool_use", cache_control |-> "", id |-> id, name |-> name,
   input |-> input]
ToolResult(tool_use_id, content, is_error) ==
  [type |-> "tool_result", cache_control |-> "",
   tool_use_id |-> tool_use_id, content |-> content, is_error |-> is_error]

\* array.join(sep) on strings
RECURSIVE Join(_, _)
Join(strings, sep) ==
  IF strings = << >> THEN ""
  ELSE IF Len(strings) = 1 THEN strings[1]
  ELSE strings[1] \o sep \o Join(Tail(strings), sep)

\* JSON.stringify of an object: the objects the requests of the model use
JsonText(o) ==
  IF o = [city |-> "Oslo"] THEN "{\"city\":\"Oslo\"}" ELSE "{}"
\* JSON.stringify of an array of blocks, each block cut down to its type
BlockJson(b) == "{\"type\":\"" \o b.type \o "\"}"
Stringify(blocks) ==
  "[" \o Join([k \in 1..Len(blocks) |-> BlockJson(blocks[k])], ",") \o "]"

IsText(b) == b.type = "text"
IsToolUse(b) == b.type = "tool_use"
IsToolResult(b) == b.type = "tool_result"
\* blocks.map(b => b.text)
Texts(blocks) == [k \in 1..Len(blocks) |-> blocks[k].text]

\* { type: "text", text } with the block's cache_control, if it has one
ConvertTextBlock(b) ==
  [type |-> "text", text |-> b.text, cache_control |-> b.cache_control]

\* the image_url block made of an image block
ConvertImageBlock(b) ==
  [type |-> "image_url",
   url |-> IF b.source.type = "base64"
             THEN "data:" \o b.source.media_type \o ";base64,"
                    \o b.source.data
           ELSE IF b.source.type = "url" THEN b.source.url
           ELSE ""]

\* msg.content.map(block => ...)
ConvertBlock(b) ==
  IF b.type = "text" THEN ConvertTextBlock(b)
  ELSE IF b.type = "image" THEN ConvertImageBlock(b)
  ELSE b

ConvertBlocks(blocks) ==
  [k \in 1..Len(blocks) |-> ConvertBlock(blocks[k])]

\* the blocks of the separate user message and of an array system prompt:
\* only text blocks are rebuilt, images stay as they are
ConvertOtherBlock(b) == IF b.type = "text" THEN ConvertTextBlock(b) ELSE b
ConvertOtherBlocks(blocks) ==
  [k \in 1..Len(blocks) |-> ConvertOtherBlock(blocks[k])]

\* the content of an array message: one string when every block is a text
\* block without a cache marker, the converted array otherwise
ConvertContent(blocks) ==
  LET hasSpecialBlocks ==
        \E i \in 1..Len(blocks) :
          \/ blocks[i].cache_control # ""
          \/ blocks[i].type \in {"image", "image_url"}
      convertedContent == ConvertBlocks(blocks)
      textOnlyBlocks ==
        SelectSeq(convertedContent,
                  LAMBDA b : b.type = "text" /\ b.cache_control = "")
  IN  IF ~hasSpecialBlocks /\ Len(textOnlyBlocks) = Len(convertedContent)
        THEN Str(Join(Texts(textOnlyBlocks), "\n"))
        ELSE Arr(convertedContent)

ToolCallOf(tu) ==
  [id |-> tu.id, type |-> "function", name |-> tu.name,
   arguments |-> IF tu.input.kind = "string" THEN tu.input.value
                 ELSE JsonText(tu.input.object)]

formatToolResultContent(content) ==
  IF content.kind = "string" THEN content.value
  ELSE IF content.kind = "array"
    THEN LET joined == Join(Texts(SelectSeq(content.blocks, IsText)),
                            "\n")
         IN  IF joined # "" THEN joined ELSE Stringify(content.blocks)
  ELSE JsonText(content.object)

ToolMessage(tr) ==
  [role |-> "tool", tool_call_id |-> tr.tool_use_id,
   content |-> Str((IF tr.is_error THEN "[ERROR] " ELSE "")
                     \o formatToolResultContent(tr.content))]

ToolMessages(toolResults) ==
  [k \in 1..Len(toolResults) |-> ToolMessage(toolResults[k])]

\* the message made of msg before its tool results are looked at
ConvertedMessage(msg) ==
  LET content == IF msg.content.kind = "string" THEN msg.content
                 ELSE ConvertContent(msg.content.blocks)
      toolUses == IF msg.content.kind = "array"
                    THEN SelectSeq(msg.content.blocks, IsToolUse) ELSE << >>
      textBlocks == SelectSeq(msg.content.blocks, IsText)
  IN  IF msg.role = "assistant" /\ Len(toolUses) > 0
        THEN [role |-> msg.role,
              content |-> IF Len(textBlocks) > 0
                            THEN Str(Join(Texts(textBlocks), "\n"))
                            ELSE Null,
              tool_calls |-> [k \in 1..Len(toolUses) |-> ToolCallOf(toolUses[k])]]
        ELSE [role |-> msg.role, content |-> content]

\* faulty variant: the separate user message is made even when no block
\* is left for it
convertAnthropicMessageAlwaysUser(msg) ==
  IF msg.role = "user" /\ msg.content.kind = "array"
     /\ Len(SelectSeq(msg.content.blocks, IsToolResult)) > 0
    THEN [isToolResults |-> TRUE,
          toolResults |->
            ToolMessages(SelectSeq(msg.content.blocks, IsToolResult)),
          additionalMessages |->
            << [role |-> "user",
                content |-> Arr(ConvertOtherBlocks(
                                  SelectSeq(msg.content.blocks,
                                            LAMBDA b : ~IsToolResult(b))))]
            >>]
    ELSE [isToolResults |-> FALSE, message |-> ConvertedMessage(msg)]

\* convertAnthropicMessage(msg): additionalMessages holds the
\* additionalMessage of the result, if it has one
convertAnthropicMessage(msg) ==
  LET toolResults == SelectSeq(msg.content.blocks, IsToolResult)
      otherBlocks == SelectSeq(msg.content.blocks, LAMBDA b : ~IsToolResult(b))
  IN  IF msg.role = "user" /\ msg.content.kind = "array"
         /\ Len(toolResults) > 0
        THEN [isToolResults |-> TRUE,
              toolResults |-> ToolMessages(toolResults),
              additionalMessages |->
                IF Len(otherBlocks) > 0
                  THEN << [role |-> "user",
                           content |-> Arr(ConvertOtherBlocks(otherBlocks))]
                     >>
                  ELSE << >>]
        ELSE [isToolResults |-> FALSE, message |-> ConvertedMessage(msg)]

\* faulty variant: the separate user message is pushed before the tool
\* messages
PushConvertedUserFirst(convertedMsg) ==
  IF convertedMsg.isToolResults
    THEN convertedMsg.additionalMessages \o convertedMsg.toolResults
    ELSE << convertedMsg.message >>

\* what one turn of the loop over anthropicBody.messages pushes
PushConverted(convertedMsg) ==
  IF convertedMsg.isToolResults
    THEN convertedMsg.toolResults \o convertedMsg.additionalMessages
    ELSE << convertedMsg.message >>

RECURSIVE ConvertMessages(_)
ConvertMessages(messages) ==
  IF messages = << >> THEN << >>
  ELSE PushConverted(convertAnthropicMessage(Head(messages)))
         \o ConvertMessages(Tail(messages))

\* faulty variant: an array system prompt is flattened into one string
SystemMessagesFlattened(system) ==
  IF system.kind = "string" /\ system.value # ""
    THEN << [role |-> "system", content |-> system] >>
  ELSE IF system.kind = "array"
    THEN << [role |-> "system",
             content |-> Str(Join(Texts(system.blocks), "\n"))] >>
  ELSE << >>

\* the system message, if anthropicBody.system is a string or an array
SystemMessages(system) ==
  IF system.kind = "string" /\ system.value # ""
    THEN << [role |-> "system", content |-> system] >>
  ELSE IF system.kind = "array"
    THEN << [role |-> "system",
             content |-> Arr(ConvertOtherBlocks(system.blocks))] >>
  ELSE << >>

\* faulty variant: the system message is pushed after the conversation
ConvertSystemLast(body) ==
  [messages |-> ConvertMessages(body.messages) \o SystemMessages(body.system)]

\* the messages of the ChatRequest
convertAnthropicToOpenAI(body) ==
  [messages |-> SystemMessages(body.system) \o ConvertMessages(body.messages)]

\* ---------------------------------------------------- Response Translator
\* a backend chat.completion: choice tells whether choices[0] exists,
\* content and tool_calls are those of its message
Response(choice, content, tool_calls, finish_reason, usage) ==
  [choice |-> choice, content |-> content, tool_calls |-> tool_calls,
   finish_reason |-> finish_reason, usage |-> usage]

\* a tool call of a chat.completion message
ResponseToolCall(id, name, arguments) ==
  [id |-> id, name |-> name, arguments |-> arguments]

\* the argument strings JSON.parse accepts
ValidJson == {"{}", "{\"city\":\"Oslo\"}"}
\* try { input = JSON.parse(arguments) } catch { input = arguments }
ToolInput(arguments) ==
  [parsed |-> arguments \in ValidJson, text |-> arguments]

ToolUseBlock(tc) ==
  [type |-> "tool_use", id |-> tc.id, name |-> tc.name,
   input |-> ToolInput(tc.arguments)]

RECURSIVE ToolUseBlocks(_)
ToolUseBlocks(tcs) ==
  IF tcs = << >> THEN << >>
  ELSE << ToolUseBlock(Head(tcs)) >> \o ToolUseBlocks(Tail(tcs))

\* faulty variant: the content array without its fallback
ResponseContentNoFallback(r) ==
  (IF r.content # "" THEN << [type |-> "text", text |-> r.content] >>
                     ELSE << >>)
    \o ToolUseBlocks(r.tool_calls)

\* the content array, with its fallback of one empty text block
ResponseContent(r) ==
  LET content ==
        (IF r.content # "" THEN << [type |-> "text", text |-> r.content] >>
                           ELSE << >>)
          \o ToolUseBlocks(r.tool_calls)
  IN  IF Len(content) > 0 THEN content
      ELSE << [type |-> "text", text |-> ""] >>

\* usage?.prompt_tokens_details?.cached_tokens || ... || 0
ReportedCacheRead(u) ==
  IF u.present
    THEN Or(u.details_cached_tokens,
            Or(u.cache_read_input_tokens, u.cached_tokens))
    ELSE 0
\* usage?.cache_creation_input_tokens || ... || 0
ReportedCacheCreation(u) ==
  IF u.present
    THEN Or(u.cache_creation_input_tokens, u.details_cache_creation_tokens)
    ELSE 0

\* faulty variant: input_tokens without the floor of zero
ResponseUsageNoFloor(u, p) ==
  LET totalPrompt == IF u.present THEN u.prompt_tokens ELSE 0
      output == IF u.present THEN u.completion_tokens ELSE 0
      estimated == estimateCacheTokensFromCost(totalPrompt, output, u.cost,
                                               p, ReportedCacheRead(u))
      cacheRead == IF u.present /\ u.cost # 0
                     THEN estimated.cacheReadTokens ELSE ReportedCacheRead(u)
      cacheCreation == IF u.present /\ u.cost # 0
                         THEN estimated.cacheCreationTokens
                         ELSE ReportedCacheCreation(u)
  IN  [input_tokens |-> totalPrompt - cacheRead - cacheCreation,
       output_tokens |-> output,
       cache_creation_input_tokens |-> cacheCreation,
       cache_read_input_tokens |-> cacheRead]

\* the usage object of the translated response; p is what the estimator's
\* getModelPricing(model) returns
ResponseUsage(u, p) ==
  LET totalPrompt == IF u.present THEN u.prompt_tokens ELSE 0
      output == IF u.present THEN u.completion_tokens ELSE 0
      \* if (openaiResponse.usage?.cost): any cost but 0 is truthy
      priced == u.present /\ u.cost # 0
      estimated == estimateCacheTokensFromCost(totalPrompt, output, u.cost,
                                               p, ReportedCacheRead(u))
      cacheRead == IF priced THEN estimated.cacheReadTokens
                             ELSE ReportedCacheRead(u)
      cacheCreation == IF priced THEN estimated.cacheCreationTokens
                                 ELSE ReportedCacheCreation(u)
  IN  [input_tokens |-> Max(0, totalPrompt - cacheRead - cacheCreation),
       output_tokens |-> output,
       cache_creation_input_tokens |-> cacheCreation,
       cache_read_input_tokens |-> cacheRead]

UpstreamError ==
  [type |-> "error", error_type |-> "api_error",
   message |-> "No response from upstream"]

\* faulty variant: choices[0] is not checked, so that reading the message
\* of a missing choice throws
ConvertUncheckedChoice(r, p) ==
  IF ~r.choice THEN [type |-> "TypeError"]
  ELSE [type |-> "message", role |-> "assistant",
        content |-> ResponseContent(r),
        stop_reason |-> StopReasonOf(r.finish_reason),
        usage |-> ResponseUsage(r.usage, p)]

\* the translated response, without its id and model (copied through)
convertOpenAIToAnthropic(r, p) ==
  IF ~r.choice THEN UpstreamError
  ELSE [type |-> "message", role |-> "assistant",
        content |-> ResponseContent(r),
        stop_reason |-> StopReasonOf(r.finish_reason),
        usage |-> ResponseUsage(r.usage, p)]

\* -------------------------------------------------------- Pricing Resolver
\* const PRICING_CACHE_TTL = 7 * 24 * 3600 * 1000: seven days, the unit of
\* the model's clock being the day
PRICING_CACHE_TTL == 7

\* the model ids prices are looked up for
ModelIds ==
  {"anthropic/claude-sonnet-4.5", "Anthropic/Claude-Sonnet-4.5",
   "openai/gpt-4o", "acme/unknown"}
\* model?.toLowerCase()
ToLowerCase(model) ==
  IF model = "Anthropic/Claude-Sonnet-4.5" THEN "anthropic/claude-sonnet-4.5"
  ELSE model

\* the entry of MODEL_PRICING_FALLBACK the lookups can meet; prices in
\* 0.01 $/M tokens
MODEL_PRICING_FALLBACK ==
  [m \in {"anthropic/claude-sonnet-4.5"} |-> [input |-> 300, output |-> 1500]]

\* an entry of the remote table as fetchModelPricing stores it
PriceEntry(input, output, cacheRead, cacheWrite) ==
  [known |-> TRUE, input |-> input, output |-> output,
   cacheRead |-> cacheRead, cacheWrite |-> cacheWrite]
\* the pricing object fetchModelPricing builds from a remote answer
PriceTable(entries) == [kind |-> "table", entries |-> entries]
\* what the remote models endpoint may list
RemoteTables ==
  { PriceTable([m \in {"anthropic/claude-sonnet-4.5", "openai/gpt-4o"} |->
                 IF m = "openai/gpt-4o" THEN PriceEntry(250, 1000, 125, 0)
                 ELSE PriceEntry(300, 1500, 30, 375)]),
    PriceTable(<< >>) }

\* modelPricingCache && Date.now() - pricingCacheTime < PRICING_CACHE_TTL
CacheFresh(cache, cacheTime, time) ==
  cache # Null /\ time - cacheTime < PRICING_CACHE_TTL

\* faulty variant: the fallback table is searched for the very model id only
ResolvePricingExactKey(dynamicPricing, model) ==
  IF dynamicPricing # Null /\ model \in DOMAIN dynamicPricing.entries
    THEN dynamicPricing.entries[model]
  ELSE IF model \in DOMAIN MODEL_PRICING_FALLBACK
    THEN LET fallback == MODEL_PRICING_FALLBACK[model]
         IN  PriceEntry(fallback.input, fallback.output,
                        fallback.input \div 10,
                        (fallback.input * 125) \div 100)
  ELSE NoPricing

\* getModelPricing once fetchModelPricing has returned dynamicPricing (a
\* table or null); null is returned as NoPricing
ResolvePricing(dynamicPricing, model) ==
  IF dynamicPricing # Null /\ model \in DOMAIN dynamicPricing.entries
    THEN dynamicPricing.entries[model]
  ELSE LET key == IF model \in DOMAIN MODEL_PRICING_FALLBACK THEN model
                  ELSE ToLowerCase(model)
       IN  IF key \in DOMAIN MODEL_PRICING_FALLBACK
             THEN LET fallback == MODEL_PRICING_FALLBACK[key]
                  IN  PriceEntry(fallback.input, fallback.output,
                                 fallback.input \div 10,
                                 (fallback.input * 125) \div 100)
           ELSE NoPricing

\* ------------------------------------------------------ the request handler
\* jsonResponse of an error; shape "anthropic" is {type: "error", error:
\* {type, message}}, shape "openai" is {error: {message, type, code}}
JsonError(shape, type, message, status) ==
  [kind |-> "json", shape |-> shape, type |-> type, message |-> message,
   status |-> status]
\* new Response(encodeSSE("error", {type: "error", error: {type:
\* "api_error", message}}), {status}): the events of the body
SseError(message, status) ==
  [kind |-> "sse",
   events |-> << [event |-> "error", type |-> "error",
                  error_type |-> "api_error", message |-> message] >>,
   status |-> status]
\* new Response(response.body.pipeThrough(transformStream), {status})
Streamed(status) == [kind |-> "stream", status |-> status]
\* new Response(JSON.stringify(anthropicResponse), {status: 200}); type is
\* the type of what convertOpenAIToAnthropic returned
Translated(type) == [kind |-> "translated", type |-> type, status |-> 200]
\* the backend's response handed on by the generic proxy
PassedThrough(reply) == [kind |-> "passthrough", status |-> reply.status]
\* new Response(null, {status: 204}) of the CORS preflight
Preflight == [kind |-> "preflight", status |-> 204]

\* the body of a backend response: text is the body, json whether
\* JSON.parse accepts it, message its error.message ("" when it has none),
\* choices whether it is a chat.completion with a choice
Body(json, message, choices, text) ==
  [json |-> json, message |-> message, choices |-> choices, text |-> text]
\* fetch on the backend resolved with a response
Reply(status, eventStream, body) ==
  [kind |-> "response", status |-> status, eventStream |-> eventStream,
   body |-> body]
\* fetch on the backend threw
TransportFailure == [kind |-> "failure"]
\* fetch on the backend has not returned yet
Pending == [kind |-> "pending"]

\* response.ok
Ok(status) == status >= 200 /\ status <= 299

\* errorJson.error?.message || "Upstream error" when the body is JSON,
\* errorData || "Upstream error" when it is not
ErrorMessage(body) ==
  IF body.json THEN (IF body.message # "" THEN body.message
                                          ELSE "Upstream error")
  ELSE IF body.text # "" THEN body.text
  ELSE "Upstream error"

\* the catch of handleAnthropicRequest: `Proxy error: ${error.message}`
ProxyError == JsonError("anthropic", "api_error", "Proxy error", 502)

\* faulty variant: a stream is piped through the transformer whatever the
\* content type of the backend's response
AnswerAlwaysStreamed(req, reply) ==
  IF reply.kind = "failure"
    THEN [response |-> ProxyError, transcoder |-> FALSE]
  ELSE IF req.stream
    THEN [response |-> Streamed(reply.status), transcoder |-> TRUE]
  ELSE IF ~Ok(reply.status)
    THEN [response |-> JsonError("anthropic", "api_error",
                                 ErrorMessage(reply.body), reply.status),
          transcoder |-> FALSE]
  ELSE IF ~reply.body.json
    THEN [response |-> ProxyError, transcoder |-> FALSE]
  ELSE [response |-> Translated(IF reply.body.choices THEN "message"
                                                      ELSE "error"),
        transcoder |-> FALSE]

\* faulty variant: fetch is awaited outside the try, so that a failure is
\* caught by the router
AnswerFailureUncaught(req, reply) ==
  IF reply.kind = "failure"
    THEN [response |-> JsonError("openai", "internal_error",
                                 "Internal error", 500),
          transcoder |-> FALSE]
  ELSE IF req.stream /\ reply.eventStream
    THEN [response |-> Streamed(reply.status), transcoder |-> TRUE]
  ELSE IF req.stream
    THEN [response |-> SseError(ErrorMessage(reply.body), reply.status),
          transcoder |-> FALSE]
  ELSE IF ~Ok(reply.status)
    THEN [response |-> JsonError("anthropic", "api_error",
                                 ErrorMessage(reply.body), reply.status),
          transcoder |-> FALSE]
  ELSE IF ~reply.body.json
    THEN [response |-> ProxyError, transcoder |-> FALSE]
  ELSE [response |-> Translated(IF reply.body.choices THEN "message"
                                                      ELSE "error"),
        transcoder |-> FALSE]

\* handleAnthropicRequest from the return of fetch on: the response, and
\* whether createStreamTransformer was called
AnthropicAnswer(req, reply) ==
  IF reply.kind = "failure"
    THEN [response |-> ProxyError, transcoder |-> FALSE]
  ELSE IF req.stream /\ reply.eventStream
    THEN [response |-> Streamed(reply.status), transcoder |-> TRUE]
  ELSE IF req.stream
    THEN [response |-> SseError(ErrorMessage(reply.body), reply.status),
          transcoder |-> FALSE]
  ELSE IF ~Ok(reply.status)
    THEN [response |-> JsonError("anthropic", "api_error",
                                 ErrorMessage(reply.body), reply.status),
          transcoder |-> FALSE]
  \* await response.json() throws
  ELSE IF ~reply.body.json
    THEN [response |-> ProxyError, transcoder |-> FALSE]
  ELSE [response |-> Translated(IF reply.body.choices THEN "message"
                                                      ELSE "error"),
        transcoder |-> FALSE]

\* handleOpenAIProxy from the return of fetch on
ProxyAnswer(req, reply) ==
  IF reply.kind = "failure"
    THEN [response |-> JsonError("openai", "proxy_error", "Proxy error",
                                 502),
          transcoder |-> FALSE]
  ELSE [response |-> PassedThrough(reply), transcoder |-> FALSE]

\* the handlers up to their first call of fetch on the backend: the
\* response they return before it, or << >> when they reach the call
EarlyAnswer(req) ==
  IF req.method = "OPTIONS" THEN << Preflight >>
  ELSE IF req.path = "/v1/messages"
    THEN IF ~req.hasKey
           THEN << JsonError("anthropic", "authentication_error",
                             "Missing API key", 401) >>
         ELSE IF req.method # "POST"
           THEN << JsonError("anthropic", "invalid_request_error",
                             "Only POST method is supported", 405) >>
         ELSE IF req.body = "invalid"
           THEN << JsonError("anthropic", "invalid_request_error",
                             "Invalid JSON body", 400) >>
         \* anthropicBody.stream of null throws, the router catches
         ELSE IF req.body = "null"
           THEN << JsonError("openai", "internal_error", "Internal error",
                             500) >>
         ELSE << >>
  ELSE IF ~req.hasKey
    THEN << JsonError("openai", "authentication_error", "Missing API key",
                      401) >>
  ELSE << >>

\* whether the body handed to fetch is request.body after request.text()
\* has read it: handleOpenAIProxy falls back to it when JSON.parse throws
BodyAlreadyRead(req) ==
  /\ req.path # "/v1/messages"
  /\ req.method = "POST"
  /\ req.body = "invalid"

\* ------------------------------------------------------- the state machine
\* a value not there yet: no call made, no request or response at hand
Absent == [absent |-> TRUE]

\* the estimator has not been called
EstimatorIdle == estArgs = Absent /\ estAsync = Absent /\ estSync = Absent
\* no backend response is being translated
ResponseIdle == openaiResponse = Absent /\ anthropicResponse = Absent
\* no client request is being translated
RequestIdle == anthropicBody = Absent /\ openaiBody = Absent

\* no price lookup is under way and the clock is not looked at
ResolverIdle ==
  /\ modelPricingCache = Absent
  /\ pricingCacheTime = Absent
  /\ now = Absent
  /\ lookups = Absent
\* no concurrent streams are open
InstancesIdle == instances = Absent
\* the worker has no request at hand
HandlerIdle ==
  /\ request = Absent
  /\ handlerAt = Absent
  /\ backendCalls = Absent
  /\ responses = Absent
  /\ transcoderStarted = Absent
\* the worker's price cache, handler and further streams are not part of
\* the run
ServerIdle == ResolverIdle /\ InstancesIdle /\ HandlerIdle

\* the closure variables of createStreamTransformer as it returns
StreamInit ==
  /\ buffer = NoLine
  /\ totalPromptTokens = 0
  /\ outputTokens = 0
  /\ cacheCreationTokens = 0
  /\ cacheReadTokens = 0
  /\ totalCost = 0
  /\ sentStart = FALSE
  /\ textBlockStarted = FALSE
  /\ toolCallsStarted = << >>
  /\ toolCallNames = [i \in ToolIndices |-> ""]
  /\ finalStopReason = "end_turn"
  /\ contentBlocksStopped = FALSE
  /\ out = << >>
  /\ fed = << >>
  /\ backendEnded = FALSE

Init ==
  /\ StreamInit
  /\ ServerIdle
  /\ pricing \in Pricings
  /\ EstimatorIdle
  /\ ResponseIdle
  /\ RequestIdle

\* faulty variant: transform looks the pricing up in the price cache of the
\* moment instead of using the one it was created with
TransformRefetching(ls, tail) ==
  /\ ~backendEnded
  /\ buffer # NoLine =>
       IF ls # << >> THEN Head(ls) = buffer ELSE tail = buffer
  /\ ls # << >> \/ tail # buffer
  /\ LET p == IF modelPricingCache = Absent THEN pricing
              ELSE ResolvePricing(modelPricingCache, lookups[1].model)
         s == ProcessLines(State, ls, p)
     IN  /\ totalPromptTokens' = s.totalPromptTokens
         /\ outputTokens' = s.outputTokens
         /\ cacheCreationTokens' = s.cacheCreationTokens
         /\ cacheReadTokens' = s.cacheReadTokens
         /\ totalCost' = s.totalCost
         /\ sentStart' = s.sentStart
         /\ textBlockStarted' = s.textBlockStarted
         /\ toolCallsStarted' = s.toolCallsStarted
         /\ toolCallNames' = s.toolCallNames
         /\ finalStopReason' = s.finalStopReason
         /\ contentBlocksStopped' = s.contentBlocksStopped
         /\ out' = s.out
  /\ buffer' = tail
  /\ fed' = fed \o ls
  /\ UNCHANGED << backendEnded, pricing, estimatorVars, responseVars,
                  requestVars, serverVars >>

\* transform(chunk, controller): the chunk completes the lines ls (the
\* first of them begun in the buffer, if the buffer holds a partial line)
\* and ends with a part of the line tail (NoLine: it ends at a newline)
Transform(ls, tail) ==
  /\ ~backendEnded
  /\ buffer # NoLine =>
       IF ls # << >> THEN Head(ls) = buffer ELSE tail = buffer
  /\ ls # << >> \/ tail # buffer
  /\ LET s == ProcessLines(State, ls, pricing)
     IN  /\ totalPromptTokens' = s.totalPromptTokens
         /\ outputTokens' = s.outputTokens
         /\ cacheCreationTokens' = s.cacheCreationTokens
         /\ cacheReadTokens' = s.cacheReadTokens
         /\ totalCost' = s.totalCost
         /\ sentStart' = s.sentStart
         /\ textBlockStarted' = s.textBlockStarted
         /\ toolCallsStarted' = s.toolCallsStarted
         /\ toolCallNames' = s.toolCallNames
         /\ finalStopReason' = s.finalStopReason
         /\ contentBlocksStopped' = s.contentBlocksStopped
         /\ out' = s.out
  /\ buffer' = tail
  /\ fed' = fed \o ls
  /\ UNCHANGED << backendEnded, pricing, estimatorVars, responseVars,
                  requestVars, serverVars >>

\* the backend delivers a chunk of lines of L, at most maxLines in all
Deliver(L, maxLines) ==
  \E n \in 0..Min(MaxChunk, maxLines - Len(fed)) :
    \E ls \in [1..n -> L] :
      \E tail \in (IF Len(fed) + n < maxLines THEN L \cup {NoLine}
                                               ELSE {NoLine}) :
        Transform(ls, tail)

Next == Deliver(Lines, MaxLines)

Spec == Init /\ [][Next]_vars

\* the same transcoder fed a plain text stream
NextText == Deliver(TextLines, MaxTextLines)
SpecText == Init /\ [][NextText]_vars

\* the same transcoder fed every kind of finish_reason
NextFinish == Deliver(FinishLines, MaxFinishLines)
SpecFinish == Init /\ [][NextFinish]_vars

\* the same transcoder fed the body of a stream
NextBody == Deliver(BodyLines, MaxBodyLines)
SpecBody == Init /\ [][NextBody]_vars

\* the same transcoder fed text, tool calls and finish_reasons
TwoToolsLine ==
  Line(NoUsage, TRUE, "",
       << ToolCall(0, "call_a", "get_weather", ""),
          ToolCall(1, "call_b", "get_time", "{}") >>, "")
ClosingLines ==
  { TextLine("Hi"), TwoToolsLine, FinishLine("stop"),
    FinishLine("tool_calls") }
NextClosing == Deliver(ClosingLines, MaxClosingLines)
SpecClosing == Init /\ [][NextClosing]_vars

\* the same transcoder fed tool names in fragments: one before the delta
\* with the id, one in it, one after it, and a second tool call
NameLines ==
  { ToolLine(ToolCall(0, "", "get_", "")),
    ToolLine(ToolCall(0, "call_a", "wea", "")),
    ToolLine(ToolCall(0, "", "ther", "{}")),
    ToolLine(ToolCall(1, "call_b", "get_time", "")),
    TextLine("Hi") }
NextNames == Deliver(NameLines, MaxNameLines)
SpecNames == Init /\ [][NextNames]_vars

\* the same transcoder fed a tool call whose arguments arrive in fragments
\* after the delta that carries its id, text and a finish_reason
DeltaLines ==
  { ToolStartLine, ToolArgsLine, TextLine("Hi"), FinishLine("tool_calls") }
NextDeltas ==
  Deliver(IF \E k \in 1..Len(fed) : fed[k] = ToolStartLine THEN DeltaLines
          ELSE DeltaLines \ {ToolArgsLine}, MaxDeltaLines)
SpecDeltas == Init /\ [][NextDeltas]_vars

\* the same transcoder fed a stream that the backend ends, with or without
\* the sentinel and with or without a newline after its last line
EndLines == { RoleLine, TextLine("Hi"), FinishLine("stop"), DoneLine }

\* the backend's body ends: new TransformStream({ transform }) has no flush,
\* so the readable side closes with what transform has enqueued
BackendEnds ==
  /\ ~backendEnded
  /\ backendEnded' = TRUE
  /\ UNCHANGED << buffer, totalPromptTokens, outputTokens,
                  cacheCreationTokens, cacheReadTokens, totalCost, sentStart,
                  textBlockStarted, toolCallsStarted, toolCallNames,
                  finalStopReason, contentBlocksStopped, out, fed, pricing,
                  estimatorVars, responseVars, requestVars, serverVars >>

NextEnding ==
  \/ Deliver(EndLines, MaxEndLines)
  \/ BackendEnds
\* the backend's body does end, and a chunk it has sent is handed to
\* transform: pipeThrough reads the body to its end
SpecEnding ==
  Init /\ [][NextEnding]_vars /\ WF_vars(BackendEnds)

\* the same transcoder fed usage chunks around the content
NextUsage == Deliver(UsageLines, MaxUsageLines)
SpecUsage == Init /\ [][NextUsage]_vars

\* ------------------------------------------- the estimator called directly
\* token counts, in hundreds and a few small ones around the noise floor
TokenCounts == {100 * i : i \in 0..MaxHundreds} \cup {10, 12, 500, 1000}
\* what the backend charges on top of or below its price list
Noise == {-3000, -2999, 0, 29, 31, 2999, 3000}
\* the backend's bill for a prompt of which r tokens were read from the
\* cache and w tokens written to it
Bill(promptTokens, completionTokens, p, r, w) ==
  promptTokens * p.input + completionTokens * p.output
    - r * (p.input - p.cacheRead) + w * (p.cacheWrite - p.input)

EstimatorArgs ==
  { [promptTokens |-> pt, completionTokens |-> ct, pricing |-> p,
     cachedTokens |-> h, totalCost |-> Bill(pt, ct, p, r, w) + n] :
      pt \in TokenCounts, ct \in {0, 100}, p \in EstimatorPricings,
      h \in TokenCounts \ {10, 12, 500}, r \in TokenCounts,
      w \in {0, 100}, n \in Noise }

InitEstimator ==
  /\ StreamInit
  /\ ServerIdle
  /\ pricing = NoPricing
  /\ ResponseIdle
  /\ RequestIdle
  /\ estArgs \in EstimatorArgs
  /\ estAsync = Absent
  /\ estSync = Absent

EstimateAsync ==
  /\ estAsync = Absent
  /\ estAsync' = estimateCacheTokensFromCost(estArgs.promptTokens,
                    estArgs.completionTokens, estArgs.totalCost,
                    estArgs.pricing, estArgs.cachedTokens)
  /\ UNCHANGED << streamVars, pricing, estArgs, estSync, responseVars,
                  requestVars, serverVars >>

EstimateSync ==
  /\ estSync = Absent
  /\ estSync' = estimateCacheTokensFromCostSync(estArgs.promptTokens,
                   estArgs.completionTokens, estArgs.totalCost,
                   estArgs.pricing, estArgs.cachedTokens)
  /\ UNCHANGED << streamVars, pricing, estArgs, estAsync, responseVars,
                  requestVars, serverVars >>

NextEstimator == EstimateAsync \/ EstimateSync
SpecEstimator == InitEstimator /\ [][NextEstimator]_vars

\* ----------------------------------------- a response translated directly
\* the usage objects of the backend: token counts, a cost that is absent
\* (0) or a bill at Sonnet prices, and cache counts in any of the fields
\* the translator searches
ResponseUsages ==
  {NoUsage} \cup
  UNION { { Usage(pt, ct, c, dCached, cRead, cached, cCreation, dCreation) :
              c \in {0, Bill(pt, ct, SonnetPricing, 0, 0),
                     Bill(pt, ct, SonnetPricing, Min(100, pt), 0),
                     Bill(pt, ct, SonnetPricing, 0, Min(100, pt))},
              dCached \in {0, 200}, cRead \in {0, 300}, cached \in {0, 50},
              cCreation \in {0, 30}, dCreation \in {0, 40} } :
          pt \in {100 * i : i \in 0..MaxHundreds} \cup {1000},
          ct \in {0, 100} }

\* what the backend answered besides the usage
ResponseBodies ==
  { Response(FALSE, "", << >>, "", NoUsage),
    Response(TRUE, "Hi", << >>, "stop", NoUsage),
    Response(TRUE, "", << >>, "length", NoUsage),
    Response(TRUE, "", << ResponseToolCall("call_a", "get_weather",
                                          "{\"city\":\"Oslo\"}") >>,
             "tool_calls", NoUsage),
    Response(TRUE, "Let me look.",
             << ResponseToolCall("call_a", "get_weather", "{\"city\":") >>,
             "function_call", NoUsage) }

Responses ==
  { [b EXCEPT !.usage = u] : b \in ResponseBodies, u \in ResponseUsages }

InitResponse ==
  /\ StreamInit
  /\ ServerIdle
  /\ pricing \in EstimatorPricings
  /\ EstimatorIdle
  /\ RequestIdle
  /\ openaiResponse \in Responses
  /\ anthropicResponse = Absent

\* const anthropicResponse = await convertOpenAIToAnthropic(openaiResponse,
\* anthropicBody.model)
Respond ==
  /\ openaiResponse # Absent
  /\ anthropicResponse = Absent
  /\ anthropicResponse' = convertOpenAIToAnthropic(openaiResponse, pricing)
  /\ UNCHANGED << streamVars, pricing, estimatorVars, openaiResponse,
                  requestVars, serverVars >>

NextResponse == Respond
SpecResponse == InitResponse /\ [][NextResponse]_vars

\* ------------------------------------- the content of a response translated
\* the tool calls of a backend message
ContentCalls ==
  { ResponseToolCall("call_a", "get_weather", "{\"city\":\"Oslo\"}"),
    ResponseToolCall("call_b", "get_time", "{}"),
    ResponseToolCall("call_c", "get_weather", "{\"city\":") }

\* backend answers with any text and at most MaxCalls tool calls
ContentResponses ==
  { Response(choice, content, tcs, fr, u) :
      choice \in BOOLEAN, content \in {"", "Hi", "Let me look."},
      tcs \in UNION { [1..n -> ContentCalls] : n \in 0..MaxCalls },
      fr \in {"stop", "tool_calls", "length"},
      u \in {NoUsage, Usage(100, 10, 0, 0, 0, 0, 0, 0)} }

InitContent ==
  /\ StreamInit
  /\ ServerIdle
  /\ pricing \in Pricings
  /\ EstimatorIdle
  /\ RequestIdle
  /\ openaiResponse \in ContentResponses
  /\ anthropicResponse = Absent

SpecContent == InitContent /\ [][NextResponse]_vars

\* the same backend usage answered through both paths: as the usage of a
\* chat.completion and as the usage chunk of a stream
PathUsages ==
  { Usage(pt, 100, c, dCached, 0, 0, cCreation, 0) :
      pt \in {0, 1000},
      c \in {0, Bill(1000, 100, SonnetPricing, 0, 0),
             Bill(1000, 100, SonnetPricing, 500, 0)},
      dCached \in {0, 500, 2000}, cCreation \in {0, 30} }
PathUsageLine == Line(openaiResponse.usage, FALSE, "", << >>, "")

InitPaths ==
  /\ StreamInit
  /\ ServerIdle
  /\ pricing \in Pricings
  /\ EstimatorIdle
  /\ RequestIdle
  /\ openaiResponse \in
       { Response(TRUE, "Hi", << >>, "stop", u) : u \in PathUsages }
  /\ anthropicResponse = Absent

NextPaths ==
  \/ Respond
  \/ Deliver({ TextLine("Hi"), PathUsageLine, DoneLine }, MaxPathLines)
SpecPaths == InitPaths /\ [][NextPaths]_vars

\* a request is answered either through the Stream Transcoder or through
\* the Response Translator
InitAccounting == Init \/ InitResponse
NextAccounting == (ResponseIdle /\ NextUsage) \/ Respond
SpecAccounting == InitAccounting /\ [][NextAccounting]_vars

\* ---------------------------------------------- price lookups side by side
\* the calls of getModelPricing that may be under way at once
LookupIds == {1, 2}
\* Date.now() when the worker starts, later than one TTL after the epoch
StartTime == PRICING_CACHE_TTL + 1
NoLookup ==
  [pc |-> "idle", model |-> "", at |-> 0, refreshed |-> FALSE,
   dynamicPricing |-> Absent, result |-> Absent]

InitResolver ==
  /\ StreamInit
  /\ pricing = NoPricing
  /\ EstimatorIdle
  /\ ResponseIdle
  /\ RequestIdle
  /\ InstancesIdle
  /\ HandlerIdle
  /\ modelPricingCache = Null
  /\ pricingCacheTime = 0
  /\ now = StartTime
  /\ lookups = [l \in LookupIds |-> NoLookup]

translatorVars ==
  << streamVars, pricing, estimatorVars, responseVars, requestVars >>
\* all but the price cache and its lookups
resolverRest == << translatorVars, instances, handlerVars >>

\* getModelPricing(model) is called and runs up to the await of fetch, or
\* to its end when fetchModelPricing returns the cached table
Lookup(l, model) ==
  /\ lookups[l].pc # "fetching"
  /\ lookups' =
       [lookups EXCEPT ![l] =
          IF CacheFresh(modelPricingCache, pricingCacheTime, now)
            THEN [pc |-> "done", model |-> model, at |-> now,
                  refreshed |-> FALSE,
                  dynamicPricing |-> modelPricingCache,
                  result |-> ResolvePricing(modelPricingCache, model)]
          ELSE [pc |-> "fetching", model |-> model, at |-> now,
                refreshed |-> FALSE, dynamicPricing |-> Absent,
                result |-> Absent]]
  /\ UNCHANGED << resolverRest, modelPricingCache, pricingCacheTime, now >>

\* the fetch answers with a table: it is stored with the time
FetchOk(l, table) ==
  /\ lookups[l].pc = "fetching"
  /\ modelPricingCache' = table
  /\ pricingCacheTime' = now
  /\ lookups' = [lookups EXCEPT ![l] =
                   [@ EXCEPT !.pc = "done", !.refreshed = TRUE,
                             !.dynamicPricing = table,
                             !.result =
                               ResolvePricing(table, lookups[l].model)]]
  /\ UNCHANGED << resolverRest, now >>

\* the fetch throws, answers with a status that is not ok, or with a body
\* that is no JSON: fetchModelPricing returns null
FetchFailed(l) ==
  /\ lookups[l].pc = "fetching"
  /\ lookups' = [lookups EXCEPT ![l] =
                   [@ EXCEPT !.pc = "done", !.dynamicPricing = Null,
                             !.result =
                               ResolvePricing(Null, lookups[l].model)]]
  /\ UNCHANGED << resolverRest, modelPricingCache, pricingCacheTime, now >>

\* a day passes
Tick ==
  /\ now < StartTime + MaxDays
  /\ now' = now + 1
  /\ UNCHANGED << resolverRest, modelPricingCache, pricingCacheTime,
                  lookups >>

NextResolver ==
  \/ \E l \in LookupIds, model \in ModelIds : Lookup(l, model)
  \/ \E l \in LookupIds, table \in RemoteTables : FetchOk(l, table)
  \/ \E l \in LookupIds : FetchFailed(l)
  \/ Tick
SpecResolver == InitResolver /\ [][NextResolver]_vars

\* ------------------------------------------------- streams open at once
\* the requests streamed at the same time, each through its own transformer
InstanceIds == {1, 2}
\* the lines their backends send
ConcurrentLines == {TextLine("Hi"), FinishLine("stop"), DoneLine}

\* the closure variables createStreamTransformer declares
NewState ==
  [totalPromptTokens |-> 0, outputTokens |-> 0, cacheCreationTokens |-> 0,
   cacheReadTokens |-> 0, totalCost |-> 0, sentStart |-> FALSE,
   textBlockStarted |-> FALSE, toolCallsStarted |-> << >>,
   toolCallNames |-> [i \in ToolIndices |-> ""],
   finalStopReason |-> "end_turn", contentBlocksStopped |-> FALSE,
   out |-> << >>, returned |-> FALSE]

\* createStreamTransformer(model, pricing); chunks are the lines of the
\* chunks its transform has processed
NewInstance(p) ==
  [state |-> NewState, buffer |-> NoLine, pricing |-> p, chunks |-> << >>]

\* faulty variant: sentStart is declared outside createStreamTransformer,
\* one variable for all the instances
ClosureSharedSentStart(insts, i) ==
  [insts[i].state EXCEPT
     !.sentStart = \E j \in InstanceIds : insts[j].state.sentStart]

\* the closure variables the transform of instance i reads and writes
ClosureOf(insts, i) == insts[i].state

RECURSIVE CountLines(_)
CountLines(chunks) ==
  IF chunks = << >> THEN 0
  ELSE Len(Head(chunks)) + CountLines(Tail(chunks))

InitInstances ==
  /\ StreamInit
  /\ pricing = NoPricing
  /\ EstimatorIdle
  /\ ResponseIdle
  /\ RequestIdle
  /\ ResolverIdle
  /\ HandlerIdle
  /\ instances \in [InstanceIds -> { NewInstance(p) : p \in Pricings }]

\* transform(chunk, controller) of instance i, as Transform
TransformAt(i, ls, tail) ==
  LET inst == instances[i]
      s == ProcessLines(ClosureOf(instances, i), ls, inst.pricing)
  IN  /\ inst.buffer # NoLine =>
           IF ls # << >> THEN Head(ls) = inst.buffer ELSE tail = inst.buffer
      /\ ls # << >> \/ tail # inst.buffer
      /\ instances' =
           [instances EXCEPT ![i] =
              [state |-> [s EXCEPT !.returned = FALSE], buffer |-> tail,
               pricing |-> inst.pricing,
               chunks |-> IF ls = << >> THEN inst.chunks
                          ELSE Append(inst.chunks, ls)]]
      /\ UNCHANGED << translatorVars, resolverVars, handlerVars >>

\* the backend of stream i delivers a chunk
DeliverAt(i) ==
  LET fedLines == CountLines(instances[i].chunks)
  IN  \E n \in 0..Min(MaxChunk, MaxStreamLines - fedLines) :
        \E ls \in [1..n -> ConcurrentLines] :
          \E tail \in (IF fedLines + n < MaxStreamLines
                          THEN ConcurrentLines \cup {NoLine}
                        ELSE {NoLine}) :
            TransformAt(i, ls, tail)

NextInstances == \E i \in InstanceIds : DeliverAt(i)
SpecInstances == InitInstances /\ [][NextInstances]_vars

\* ------------------------------------------------- a request to the worker
\* the requests of a client: body tells whether the body is no JSON, the
\* JSON null or a JSON object, stream whether its stream member is true
InboundRequests ==
  [path : {"/v1/messages", "/v1/chat/completions"},
   method : {"POST", "GET", "OPTIONS"},
   hasKey : BOOLEAN,
   body : {"invalid", "null", "object"},
   stream : BOOLEAN]

\* the bodies a backend response may have
BackendBodies ==
  { Body(TRUE, "Rate limited", FALSE,
         "{\"error\":{\"message\":\"Rate limited\"}}"),
    Body(TRUE, "", FALSE, "{}"),
    Body(TRUE, "", TRUE, "{\"choices\":[{\"message\":{}}]}"),
    Body(FALSE, "", FALSE, "Bad gateway"),
    Body(FALSE, "", FALSE, "") }
\* what a call of the backend may end in
BackendOutcomes ==
  {TransportFailure}
    \cup { Reply(status, FALSE, body) :
             status \in {200, 429, 500}, body \in BackendBodies }
    \cup { Reply(status, TRUE, Body(FALSE, "", FALSE, "data: {}")) :
             status \in {200, 500} }

InitHandler ==
  /\ StreamInit
  /\ pricing = NoPricing
  /\ EstimatorIdle
  /\ ResponseIdle
  /\ RequestIdle
  /\ ResolverIdle
  /\ InstancesIdle
  /\ request \in InboundRequests
  /\ handlerAt = "received"
  /\ backendCalls = << >>
  /\ responses = << >>
  /\ transcoderStarted = FALSE

handlerRest == << translatorVars, resolverVars, instances >>

\* fetch(request, env, ctx) up to the response it returns without calling
\* the backend
AnswerEarly ==
  /\ handlerAt = "received"
  /\ EarlyAnswer(request) # << >>
  /\ responses' = responses \o EarlyAnswer(request)
  /\ handlerAt' = "done"
  /\ UNCHANGED << handlerRest, request, backendCalls, transcoderStarted >>

\* fetch(request, env, ctx) up to its await of fetch on the backend
CallBackend ==
  /\ handlerAt = "received"
  /\ EarlyAnswer(request) = << >>
  /\ backendCalls' = Append(backendCalls, Pending)
  /\ handlerAt' = "fetching"
  /\ UNCHANGED << handlerRest, request, responses, transcoderStarted >>

\* fetch is handed a body that was read already: it may throw before any
\* request is sent, which the catch of handleOpenAIProxy answers
RejectReadBody ==
  /\ handlerAt = "received"
  /\ EarlyAnswer(request) = << >>
  /\ BodyAlreadyRead(request)
  /\ responses' =
       Append(responses, ProxyAnswer(request, TransportFailure).response)
  /\ handlerAt' = "done"
  /\ UNCHANGED << handlerRest, request, backendCalls, transcoderStarted >>

\* the call of the backend ends and the handler runs to its return
BackendAnswers(reply) ==
  /\ handlerAt = "fetching"
  /\ LET answer == IF request.path = "/v1/messages"
                     THEN AnthropicAnswer(request, reply)
                   ELSE ProxyAnswer(request, reply)
     IN  /\ responses' = Append(responses, answer.response)
         /\ transcoderStarted' = answer.transcoder
  /\ backendCalls' = [backendCalls EXCEPT ![Len(backendCalls)] = reply]
  /\ handlerAt' = "done"
  /\ UNCHANGED << handlerRest, request >>

NextHandler ==
  \/ AnswerEarly
  \/ CallBackend
  \/ RejectReadBody
  \/ \E reply \in BackendOutcomes : BackendAnswers(reply)
SpecHandler == InitHandler /\ [][NextHandler]_vars

\* ------------------------------------- a stream while prices are looked up
\* the model of the streamed request; lookup 1 is the handler's call of
\* getModelPricing(anthropicBody.model), lookup 2 that of another request for
\* the same model
StreamModel == "openai/gpt-4o"
\* a usage chunk billed at the remote table's price with 500 tokens read
\* from the cache, and the sentinel
PricedLines ==
  { Line(Usage(1000, 100,
               Bill(1000, 100, PriceEntry(250, 1000, 125, 0), 500, 0),
               0, 0, 0, 0, 0), FALSE, "", << >>, ""),
    DoneLine }

InitPriced ==
  /\ StreamInit
  /\ pricing = Absent
  /\ EstimatorIdle
  /\ ResponseIdle
  /\ RequestIdle
  /\ InstancesIdle
  /\ HandlerIdle
  /\ \/ modelPricingCache = Null /\ pricingCacheTime = 0
     \/ modelPricingCache \in RemoteTables /\ pricingCacheTime = StartTime
  /\ now = StartTime
  /\ lookups = [l \in LookupIds |-> NoLookup]

\* const pricing = await getModelPricing(anthropicBody.model) has returned:
\* createStreamTransformer(anthropicBody.model, pricing)
Setup ==
  /\ pricing = Absent
  /\ lookups[1].pc = "done"
  /\ pricing' = lookups[1].result
  /\ UNCHANGED << streamVars, estimatorVars, responseVars, requestVars,
                  serverVars >>

\* a week passes
WeekPasses ==
  /\ now < StartTime + MaxWeeks * PRICING_CACHE_TTL
  /\ now' = now + PRICING_CACHE_TTL
  /\ UNCHANGED << resolverRest, modelPricingCache, pricingCacheTime,
                  lookups >>

NextPriced ==
  \/ lookups[1].pc = "idle" /\ Lookup(1, StreamModel)
  \/ Lookup(2, StreamModel)
  \/ \E l \in LookupIds, table \in RemoteTables : FetchOk(l, table)
  \/ \E l \in LookupIds : FetchFailed(l)
  \/ Setup
  \/ WeekPasses
  \/ pricing # Absent /\ Deliver(PricedLines, MaxPricedLines)
SpecPriced == InitPriced /\ [][NextPriced]_vars

\* ------------------------------------------ a request translated directly
\* the blocks a message of the client is made of
BlockAlphabet ==
  { TextBlock("Look at this.", ""),
    TextBlock("Remember this.", "ephemeral"),
    ImageBlock("image/png", "iVBOR"),
    ToolUse("toolu_1", "get_weather", Obj([city |-> "Oslo"])),
    ToolResult("toolu_1", Str("4 degrees"), FALSE),
    ToolResult("toolu_2", Arr(<< TextBlock("no such city", "") >>), TRUE) }

\* a message whose content is an array of at most MaxBlocks blocks
ArrayMessages ==
  { [role |-> r, content |-> Arr(bs)] :
      r \in {"user", "assistant"},
      bs \in UNION { [1..n -> BlockAlphabet] : n \in 0..MaxBlocks } }

\* the turns around it: messages with string content
StringMessages ==
  { [role |-> "user", content |-> Str("Hello")],
    [role |-> "assistant", content |-> Str("Hi, how can I help?")] }
Contexts == UNION { [1..n -> StringMessages] : n \in 0..MaxContext }

Systems ==
  { Null, Str("Be brief."),
    Arr(<< TextBlock("Be brief.", "ephemeral") >>) }

\* a conversation with at most one array message among string messages
Requests ==
  { [system |-> s, messages |-> pre \o mid \o post] :
      s \in Systems, pre \in Contexts, post \in Contexts,
      mid \in {<< >>} \cup { << msg >> : msg \in ArrayMessages } }

InitRequest ==
  /\ StreamInit
  /\ ServerIdle
  /\ pricing = NoPricing
  /\ EstimatorIdle
  /\ ResponseIdle
  /\ anthropicBody \in Requests
  /\ openaiBody = Absent

\* const openaiBody = convertAnthropicToOpenAI(anthropicBody)
Translate ==
  /\ anthropicBody # Absent
  /\ openaiBody = Absent
  /\ openaiBody' = convertAnthropicToOpenAI(anthropicBody)
  /\ UNCHANGED << streamVars, pricing, estimatorVars, responseVars,
                  anthropicBody, serverVars >>

NextRequest == Translate
SpecRequest == InitRequest /\ [][NextRequest]_vars

\* ------------------------------------- a request with an array system prompt
\* the text blocks of a system prompt, with and without a cache marker
SystemBlocks ==
  { TextBlock("Be brief.", ""),
    TextBlock("You are a weather bot.", "ephemeral"),
    TextBlock("Today is Friday.", "persistent") }

\* a system prompt that is absent, a string, or an array of text blocks
SystemPrompts ==
  { Null, Str("Be brief.") }
    \cup { Arr(bs) : bs \in UNION { [1..n -> SystemBlocks] :
                                      n \in 0..MaxBlocks } }

SystemRequests ==
  { [system |-> s, messages |-> pre \o post] :
      s \in SystemPrompts, pre \in Contexts, post \in Contexts }

InitSystem ==
  /\ StreamInit
  /\ ServerIdle
  /\ pricing = NoPricing
  /\ EstimatorIdle
  /\ ResponseIdle
  /\ anthropicBody \in SystemRequests
  /\ openaiBody = Absent

SpecSystem == InitSystem /\ [][NextRequest]_vars

\* ---------------------------------------------------- reading the output
Last(seq) == seq[Len(seq)]
OfType(seq, t) == SelectSeq(seq, LAMBDA e : e.type = t)
Count(seq, t) == Len(OfType(seq, t))
\* the content_block_start and content_block_stop events of index i
BlockEvents(seq, i) ==
  SelectSeq(seq, LAMBDA e :
    e.type \in {"content_block_start", "content_block_stop"} /\ e.index = i)
\* starts and stops of index i alternate, beginning with a start and
\* ending with a stop
Balanced(seq, i) ==
  LET ev == BlockEvents(seq, i)
  IN  /\ Len(ev) % 2 = 0
      /\ \A k \in 1..Len(ev) :
           ev[k].type = IF k % 2 = 1 THEN "content_block_start"
                                     ELSE "content_block_stop"
BlockIndices == {0} \cup ToolIndices \cup {i + 1 : i \in ToolIndices}
CarriesChoice(line) == line.kind = "json" /\ line.choice
UsageOnly(line) == line.kind = "json" /\ line.usage.present /\ ~line.choice

\* ------------------------------------------------------------------ claims

\* C1: by the time message_stop is emitted, every content_block_start of an
\* index has exactly one content_block_stop of that index after it, and no
\* content_block_stop comes without an open content_block_start before it.
C1_BlocksClosedAtStop ==
  (out # << >> /\ Last(out).type = "message_stop")
    => \A i \in BlockIndices : Balanced(out, i)

\* C2: message_start is emitted at most once, and no other event is emitted
\* before it.
C2_StartOnceAndFirst ==
  /\ Count(out, "message_start") <= 1
  /\ out # << >> => out[1].type = "message_start"

\* C3: index 0 is reserved for the text block: no two content_block_start
\* events carry the same index, and when a text content_block_start is
\* emitted no tool_use content_block_start carries index 0.
C3_IndexZeroReserved ==
  LET starts == OfType(out, "content_block_start")
  IN  /\ \A j, k \in 1..Len(starts) :
           j # k => starts[j].index # starts[k].index
      /\ (\E j \in 1..Len(starts) : starts[j].block = "text")
           => \A k \in 1..Len(starts) :
                starts[k].block = "tool_use" => starts[k].index # 0

\* C4: message_delta, message_stop are emitted only while the sentinel is
\* processed, at most once per stream, and nothing is emitted after
\* message_stop.
C4_TerminalPairOnce ==
  /\ Count(out, "message_delta") <= 1
  /\ Count(out, "message_stop") <= 1
  /\ Count(out, "message_stop") <= Len(SelectSeq(fed, LAMBDA l : l = DoneLine))
  /\ \A k \in 1..Len(out) :
       /\ out[k].type = "message_stop" => k = Len(out)
       /\ out[k].type = "message_delta" =>
            k < Len(out) /\ out[k + 1].type = "message_stop"

\* C5: every stream in which the sentinel is processed has at least one
\* content_block_start / content_block_stop pair after message_start and
\* before message_delta.
C5_AtLeastOneBlock ==
  \A d \in 1..Len(out) :
    out[d].type = "message_delta" =>
      \E a, b \in 1..d :
        /\ a < b
        /\ out[a].type = "content_block_start"
        /\ out[b].type = "content_block_stop"
        /\ out[a].index = out[b].index
        /\ \E m \in 1..a : out[m].type = "message_start"

\* what one step consumed and produced
NewLines == SubSeq(fed', Len(fed) + 1, Len(fed'))
NewEvents == SubSeq(out', Len(out) + 1, Len(out'))
Occurs(x, seq) == \E k \in 1..Len(seq) : seq[k] = x
\* the input tokens a usage object reports
InputTokensOf(prompt, cacheRead, cacheCreation) ==
  Max(0, prompt - cacheRead - cacheCreation)

\* C6: when the sentinel arrives before any chunk carrying a choice, the
\* transcoder emits exactly message_start, content_block_start (index 0,
\* text), content_block_stop (index 0), message_delta, message_stop.
C6_EmptyStreamMinimal ==
  ( /\ fed # << >>
    /\ Last(fed) = DoneLine
    /\ \A k \in 1..(Len(fed) - 1) :
         fed[k] # DoneLine /\ ~CarriesChoice(fed[k]) )
  => LET inputTokens == InputTokensOf(totalPromptTokens, cacheReadTokens,
                                      cacheCreationTokens)
     IN  out = << MessageStart(inputTokens, outputTokens),
                  TextBlockStart,
                  BlockStop(0),
                  MessageDelta("end_turn", inputTokens, outputTokens,
                               cacheCreationTokens, cacheReadTokens),
                  MessageStop >>

C6_Witness ==
  /\ fed = << UsageLineA, DoneLine >>
  /\ Len(out) = 5
  /\ out[1].input_tokens = 500

\* C7: n >= 1 text deltas, then finish_reason "stop", then the sentinel,
\* give message_start, one content_block_start (index 0), the n text
\* deltas verbatim and in order, one content_block_stop (index 0), one
\* message_delta with stop_reason end_turn, one message_stop.
IsTextLine(line) ==
  /\ line.kind = "json"
  /\ line.choice
  /\ ~line.usage.present
  /\ line.content # ""
  /\ line.tool_calls = << >>
  /\ line.finish_reason = ""

C7_TextStreamSequence ==
  ( /\ Len(fed) >= 3
    /\ fed[Len(fed)] = DoneLine
    /\ fed[Len(fed) - 1] = FinishLine("stop")
    /\ \A k \in 1..(Len(fed) - 2) : IsTextLine(fed[k]) )
  => out = << MessageStart(0, 0), TextBlockStart >>
             \o [k \in 1..(Len(fed) - 2) |-> TextDelta(fed[k].content)]
             \o << BlockStop(0),
                   MessageDelta("end_turn", 0, 0, 0, 0),
                   MessageStop >>

C7_Witness ==
  /\ fed = << TextLine("Hi"), TextLine(" there"), FinishLine("stop"),
              DoneLine >>
  /\ Len(out) = 7

C9_MalformedSkipped ==
  [][ Occurs(MalformedLine, NewLines) =>
        LET clean == SelectSeq(NewLines, LAMBDA l : l # MalformedLine)
            r == ProcessLines(State, clean, pricing)
        IN  /\ out' = r.out
            /\ totalPromptTokens' = r.totalPromptTokens
            /\ outputTokens' = r.outputTokens
            /\ cacheCreationTokens' = r.cacheCreationTokens
            /\ cacheReadTokens' = r.cacheReadTokens
            /\ totalCost' = r.totalCost
            /\ sentStart' = r.sentStart
            /\ textBlockStarted' = r.textBlockStarted
            /\ toolCallsStarted' = r.toolCallsStarted
            /\ toolCallNames' = r.toolCallNames
            /\ finalStopReason' = r.finalStopReason
            /\ contentBlocksStopped' = r.contentBlocksStopped
    ]_vars

C9_Witness ==
  /\ fed = << MalformedLine, TextLine("Hi"), DoneLine >>
  /\ Len(out) = 5

\* C10: the streaming and the non-streaming path map finish_reason alike:
\* tool_calls and function_call give tool_use, length gives max_tokens,
\* anything else gives end_turn.
C10_SameStopReason ==
  LET fins == SelectSeq(fed, LAMBDA l : l.kind = "json" /\ l.finish_reason # "")
  IN  ( /\ fed # << >>
        /\ Last(fed) = DoneLine
        /\ Len(SelectSeq(fed, LAMBDA l : l = DoneLine)) = 1
        /\ Len(fins) = 1 )
      => LET f == fins[1].finish_reason
         IN  /\ Len(out) >= 2
             /\ out[Len(out) - 1].type = "message_delta"
             /\ out[Len(out) - 1].stop_reason = StopReasonOf(f)
             /\ StopReasonOf(f) =
                  CASE f \in {"tool_calls", "function_call"} -> "tool_use"
                    [] f = "length" -> "max_tokens"
                    [] OTHER -> "end_turn"

C10_Witness ==
  /\ fed = << TextLine("Hi"), FinishLine("function_call"), DoneLine >>
  /\ out[Len(out) - 1].type = "message_delta"
  /\ out[Len(out) - 1].stop_reason = "tool_use"

\* C11: in the Response Translator's usage and in the stream's final
\* message_delta alike, input_tokens is max(0, prompt_tokens - cache_read
\* - cache_write) of the cache counts reported in the same usage object,
\* and is never negative.
C11_InputTokensFloored ==
  /\ (anthropicResponse # Absent /\ anthropicResponse.type = "message") =>
       LET u == anthropicResponse.usage
           prompt == IF openaiResponse.usage.present
                       THEN openaiResponse.usage.prompt_tokens ELSE 0
       IN  /\ u.input_tokens >= 0
           /\ u.input_tokens
                = IF prompt - u.cache_read_input_tokens
                            - u.cache_creation_input_tokens > 0
                    THEN prompt - u.cache_read_input_tokens
                                - u.cache_creation_input_tokens
                    ELSE 0
  /\ (fed # << >> /\ Last(fed) = DoneLine) =>
       /\ Len(out) >= 2
       /\ out[Len(out) - 1].type = "message_delta"
       /\ LET e == out[Len(out) - 1]
          IN  /\ e.input_tokens >= 0
              /\ e.input_tokens
                   = IF totalPromptTokens - e.cache_read_input_tokens
                          - e.cache_creation_input_tokens > 0
                       THEN totalPromptTokens - e.cache_read_input_tokens
                              - e.cache_creation_input_tokens
                       ELSE 0

\* a backend that reports more cached tokens than prompt tokens
C11_Witness ==
  /\ anthropicResponse # Absent
  /\ anthropicResponse.type = "message"
  /\ openaiResponse.usage.present
  /\ openaiResponse.usage.prompt_tokens = 100
  /\ anthropicResponse.usage.cache_read_input_tokens = 200
  /\ anthropicResponse.usage.cache_creation_input_tokens = 30
  /\ anthropicResponse.usage.input_tokens = 0

\* ------------------------------------------ reading the estimator's results
\* what the estimator has returned for estArgs so far
EstResults == {estAsync, estSync} \ {Absent}
NoCache == [cacheReadTokens |-> 0, cacheCreationTokens |-> 0]
\* the inputs on which no estimate can be made
Impossible ==
  \/ estArgs.promptTokens <= 0
  \/ estArgs.totalCost <= 0
  \/ ~estArgs.pricing.known
\* promptTokens * inputPrice + completionTokens * outputPrice
ArgsNormalCost ==
  estArgs.promptTokens * estArgs.pricing.input
    + estArgs.completionTokens * estArgs.pricing.output
\* what one token read from the cache saves: inputPrice * cacheReadDiscount
ArgsSavingPerToken ==
  IF estArgs.pricing.input > 0
    THEN estArgs.pricing.input - estArgs.pricing.cacheRead ELSE 0

C13_NoHintOneCountInRange ==
  LET pr == estArgs.pricing
      costDiff == estArgs.totalCost - ArgsNormalCost
      writeCandidate == Round(costDiff, pr.cacheWrite - pr.input)
      readCandidate == Round(-costDiff, pr.input - pr.cacheRead)
  IN  estArgs.cachedTokens = 0 =>
        \A r \in EstResults :
          /\ r.cacheReadTokens = 0 \/ r.cacheCreationTokens = 0
          /\ r.cacheReadTokens \in 0..estArgs.promptTokens
          /\ r.cacheCreationTokens \in 0..estArgs.promptTokens
          /\ ( /\ costDiff > 0
               /\ pr.input > 0
               /\ pr.cacheWrite > pr.input
               /\ writeCandidate \notin 1..estArgs.promptTokens ) => r = NoCache
          /\ ( /\ costDiff < 0
               /\ pr.input > pr.cacheRead
               /\ readCandidate \notin 1..estArgs.promptTokens ) => r = NoCache

C13_Witness ==
  /\ estArgs = [promptTokens |-> 100, completionTokens |-> 100,
                pricing |-> SonnetPricing, cachedTokens |-> 0,
                totalCost |-> 99000]
  /\ estAsync = NoCache
  /\ estSync = NoCache

\* C14 as stated: with a hint h > 0 and estimation possible, cache-read is
\* h and cache-write lies in [0, promptTokens - h], and is 0 whenever the
\* residual is below inputPrice * 0.1.
C14_WriteWithinPromptLessHint ==
  LET residual == estArgs.totalCost
                    - (ArgsNormalCost
                         - estArgs.cachedTokens * ArgsSavingPerToken)
  IN  (estArgs.cachedTokens > 0 /\ ~Impossible) =>
        \A r \in EstResults :
          /\ r.cacheReadTokens = estArgs.cachedTokens
          /\ r.cacheCreationTokens
               \in 0..(estArgs.promptTokens - estArgs.cachedTokens)
          /\ 10 * residual < estArgs.pricing.input
               => r.cacheCreationTokens = 0

\* C14 amended: with a hint h > 0 and estimation possible, cache-read is h
\* and cache-write lies in [0, max(0, promptTokens - h)]: it is 0 when the
\* hint exceeds promptTokens, and 0 whenever the residual is below
\* inputPrice * 0.1.
C14_WriteClamped ==
  LET residual == estArgs.totalCost
                    - (ArgsNormalCost
                         - estArgs.cachedTokens * ArgsSavingPerToken)
  IN  (estArgs.cachedTokens > 0 /\ ~Impossible) =>
        \A r \in EstResults :
          /\ r.cacheReadTokens = estArgs.cachedTokens
          /\ r.cacheCreationTokens
               \in 0..Max(0, estArgs.promptTokens - estArgs.cachedTokens)
          /\ 10 * residual < estArgs.pricing.input
               => r.cacheCreationTokens = 0

\* a residual worth 140 cache-write tokens, cut to the 100 left
C14_Witness ==
  /\ estArgs = [promptTokens |-> 200, completionTokens |-> 0,
                pricing |-> SonnetPricing, cachedTokens |-> 100,
                totalCost |-> 43500]
  /\ estAsync = [cacheReadTokens |-> 100, cacheCreationTokens |-> 100]
  /\ estSync = estAsync

\* C15: without a hint, a cost that differs from normalCost by less than
\* the tolerance inputPrice * 10 gives (0, 0); so does a cost equal to
\* normalCost.
C15_WithinToleranceNoCache ==
  LET costDiff == estArgs.totalCost - ArgsNormalCost
  IN  ( /\ estArgs.cachedTokens = 0
        /\ Abs(costDiff) < estArgs.pricing.input * 10 \/ costDiff = 0 )
      => \A r \in EstResults : r = NoCache

\* 2999 units above the list price: 40 cache-write tokens' worth
C15_Witness ==
  /\ estArgs = [promptTokens |-> 100, completionTokens |-> 0,
                pricing |-> SonnetPricing, cachedTokens |-> 0,
                totalCost |-> 32999]
  /\ estAsync = NoCache
  /\ estSync = NoCache

\* C16 as stated: without a hint, for any k in 1..promptTokens whose saving
\* k * inputPrice * cacheReadDiscount exceeds the tolerance, the cost
\* normalCost - k * inputPrice * cacheReadDiscount gives cache-read = k
\* and cache-write = 0.
C16_ReadRoundTrip ==
  LET pr == estArgs.pricing
  IN  estArgs.cachedTokens = 0 =>
        \A k \in 1..estArgs.promptTokens :
          ( /\ k * (pr.input - pr.cacheRead) > pr.input * 10
            /\ estArgs.totalCost
                 = ArgsNormalCost - k * (pr.input - pr.cacheRead) )
          => \A r \in EstResults :
               r = [cacheReadTokens |-> k, cacheCreationTokens |-> 0]

\* C16 amended: the same, provided that cost is positive (a cost of zero
\* or less makes estimation impossible and gives (0, 0)).
C16_ReadRoundTripPositiveCost ==
  LET pr == estArgs.pricing
  IN  estArgs.cachedTokens = 0 =>
        \A k \in 1..estArgs.promptTokens :
          ( /\ k * (pr.input - pr.cacheRead) > pr.input * 10
            /\ estArgs.totalCost
                 = ArgsNormalCost - k * (pr.input - pr.cacheRead)
            /\ estArgs.totalCost > 0 )
          => \A r \in EstResults :
               r = [cacheReadTokens |-> k, cacheCreationTokens |-> 0]

\* promptTokens = 1000 of which k = 500 were read from the cache
C16_Witness ==
  /\ estArgs = [promptTokens |-> 1000, completionTokens |-> 100,
                pricing |-> SonnetPricing, cachedTokens |-> 0,
                totalCost |-> 315000]
  /\ estAsync = [cacheReadTokens |-> 500, cacheCreationTokens |-> 0]
  /\ estSync = estAsync

\* C17: when the backend reports a cost together with a cache-read count
\* and the estimator cannot reconcile them (prompt tokens not positive,
\* cost not positive, or pricing unknown), the translated response's
\* cache_read_input_tokens is the backend-reported count.
C17_ReportedCountKept ==
  ( /\ anthropicResponse # Absent
    /\ anthropicResponse.type = "message"
    /\ openaiResponse.usage.present
    /\ openaiResponse.usage.cost # 0
    /\ ReportedCacheRead(openaiResponse.usage) > 0
    /\ \/ openaiResponse.usage.prompt_tokens <= 0
       \/ openaiResponse.usage.cost <= 0
       \/ ~pricing.known )
  => anthropicResponse.usage.cache_read_input_tokens
       = ReportedCacheRead(openaiResponse.usage)

\* ------------------------------------------ reading the translated request
\* the number of system messages the request calls for
SystemCount == IF anthropicBody.system = Null THEN 0 ELSE 1
IsArrayMessage(msg) == msg.content.kind = "array"
\* the turns whose content is an array
ArrayTurns ==
  { i \in 1..Len(anthropicBody.messages) :
      IsArrayMessage(anthropicBody.messages[i]) }
\* the turns before and after turn i have string content, and each of
\* them is one message of the output, n messages being made of turn i
AroundTurn(i, n) ==
  LET msgs == anthropicBody.messages
      outp == openaiBody.messages
  IN  /\ Len(outp) = SystemCount + Len(msgs) - 1 + n
      /\ \A j \in 1..(i - 1) :
           outp[SystemCount + j]
             = [role |-> msgs[j].role, content |-> msgs[j].content]
      /\ \A j \in (i + 1)..Len(msgs) :
           outp[SystemCount + n + j - 1]
             = [role |-> msgs[j].role, content |-> msgs[j].content]

\* C18: a user message whose content is n >= 1 tool_result blocks and
\* nothing else becomes exactly n messages of role tool, in block order,
\* each with the tool_use_id of its block as tool_call_id, and no
\* user-role message.
C18_ToolResultsOnly ==
  openaiBody # Absent =>
    \A i \in ArrayTurns :
      LET msg == anthropicBody.messages[i]
          blocks == msg.content.blocks
          n == Len(blocks)
      IN  ( /\ msg.role = "user"
            /\ n >= 1
            /\ \A k \in 1..n : blocks[k].type = "tool_result" )
          => /\ AroundTurn(i, n)
             /\ \A k \in 1..n :
                  LET t == openaiBody.messages[SystemCount + i - 1 + k]
                  IN  /\ t.role = "tool"
                      /\ t.tool_call_id = blocks[k].tool_use_id

C18_Witness ==
  /\ anthropicBody.messages
       = << [role |-> "user", content |-> Str("Hello")],
            [role |-> "user",
             content |-> Arr(<< ToolResult("toolu_2",
                                  Arr(<< TextBlock("no such city", "") >>),
                                  TRUE),
                                ToolResult("toolu_1", Str("4 degrees"),
                                           FALSE) >>)],
            [role |-> "assistant", content |-> Str("Hi, how can I help?")] >>
  /\ anthropicBody.system = Null
  /\ openaiBody # Absent
  /\ openaiBody.messages[2]
       = [role |-> "tool", tool_call_id |-> "toolu_2",
          content |-> Str("[ERROR] no such city")]
  /\ openaiBody.messages[3]
       = [role |-> "tool", tool_call_id |-> "toolu_1",
          content |-> Str("4 degrees")]
  /\ Len(openaiBody.messages) = 4

PlainText(msg) ==
  \/ msg.content.kind = "string"
  \/ /\ msg.content.kind = "array"
     /\ \A k \in 1..Len(msg.content.blocks) :
          /\ msg.content.blocks[k].type = "text"
          /\ msg.content.blocks[k].cache_control = ""

\* C20: a request whose messages all carry plain-text content without
\* cache markers becomes exactly one message per input message, in the
\* same order and with the same roles, preceded only by the one system
\* message when a system prompt is present.
C20_OneMessagePerTurn ==
  LET msgs == anthropicBody.messages
  IN  ( /\ openaiBody # Absent
        /\ \A i \in 1..Len(msgs) : PlainText(msgs[i]) )
      => /\ Len(openaiBody.messages) = SystemCount + Len(msgs)
         /\ SystemCount = 1 => openaiBody.messages[1].role = "system"
         /\ \A i \in 1..Len(msgs) :
              openaiBody.messages[SystemCount + i].role = msgs[i].role

C20_Witness ==
  /\ anthropicBody
       = [system |-> Str("Be brief."),
          messages |->
            << [role |-> "user", content |-> Str("Hello")],
               [role |-> "assistant",
                content |-> Arr(<< TextBlock("Look at this.", ""),
                                   TextBlock("Look at this.", "") >>)],
               [role |-> "user", content |-> Str("Hello")] >>]
  /\ openaiBody # Absent
  /\ openaiBody.messages
       = << [role |-> "system", content |-> Str("Be brief.")],
            [role |-> "user", content |-> Str("Hello")],
            [role |-> "assistant",
             content |-> Str("Look at this.\nLook at this.")],
            [role |-> "user", content |-> Str("Hello")] >>

\* C21: a system prompt given as an array that holds a cache-marked text
\* block becomes exactly one system message, whose content is an array
\* (never a string) of one text block per input block, in the same order,
\* each with the text and the cache marker of its input block.
C21_SystemArrayKept ==
  LET system == anthropicBody.system
      systemMessages == SelectSeq(openaiBody.messages,
                                  LAMBDA msg : msg.role = "system")
  IN  ( /\ openaiBody # Absent
        /\ system.kind = "array"
        /\ \E k \in 1..Len(system.blocks) :
             /\ system.blocks[k].type = "text"
             /\ system.blocks[k].cache_control # "" )
      => /\ Len(systemMessages) = 1
         /\ openaiBody.messages[1] = systemMessages[1]
         /\ systemMessages[1].content.kind = "array"
         /\ Len(systemMessages[1].content.blocks) = Len(system.blocks)
         /\ \A k \in 1..Len(system.blocks) :
              LET b == systemMessages[1].content.blocks[k]
              IN  /\ b.type = "text"
                  /\ b.text = system.blocks[k].text
                  /\ b.cache_control = system.blocks[k].cache_control

C21_Witness ==
  /\ anthropicBody.system
       = Arr(<< TextBlock("Be brief.", ""),
                TextBlock("You are a weather bot.", "ephemeral") >>)
  /\ Len(anthropicBody.messages) = 2
  /\ openaiBody # Absent
  /\ openaiBody.messages[1]
       = [role |-> "system",
          content |->
            Arr(<< [type |-> "text", text |-> "Be brief.",
                    cache_control |-> ""],
                   [type |-> "text", text |-> "You are a weather bot.",
                    cache_control |-> "ephemeral"] >>)]

\* the text and the marker of the cache-marked text blocks among blocks
MarkedTexts(blocks) ==
  LET marked == SelectSeq(blocks, LAMBDA b : b.type = "text"
                                              /\ b.cache_control # "")
  IN  [k \in 1..Len(marked) |->
         << marked[k].text, marked[k].cache_control >>]

\* C22: translation never drops a cache marker: for every message (user
\* or assistant, with or without tool_use or tool_result blocks) whose
\* array content holds a cache-marked text block, the translated request
\* has a message of that turn whose content is an array in which the
\* same text blocks carry the same markers.
C22_MarkersKept ==
  openaiBody # Absent =>
    \A i \in ArrayTurns :
      LET msgs == anthropicBody.messages
          blocks == msgs[i].content.blocks
          first == SystemCount + i
          last == Len(openaiBody.messages) - (Len(msgs) - i)
      IN  MarkedTexts(blocks) # << >>
          => \E j \in first..last :
               /\ openaiBody.messages[j].role = msgs[i].role
               /\ openaiBody.messages[j].content.kind = "array"
               /\ MarkedTexts(openaiBody.messages[j].content.blocks)
                    = MarkedTexts(blocks)

\* ------------------------------------------------------------------- C23
\* C23: the content array of a translated message is never empty: a
\* non-empty message.content is its first block, a text block; each tool
\* call is one tool_use block after it, in the order of the tool calls; with
\* neither text nor tool call the array is exactly one empty text block
C23_ContentNeverEmpty ==
  (anthropicResponse # Absent /\ openaiResponse.choice) =>
    LET r == openaiResponse
        content == anthropicResponse.content
        off == IF r.content # "" THEN 1 ELSE 0
        n == Len(r.tool_calls)
    IN  /\ Len(content) > 0
        /\ r.content # "" =>
             content[1] = [type |-> "text", text |-> r.content]
        /\ off + n > 0 => Len(content) = off + n
        /\ \A k \in 1..n :
             /\ content[off + k].type = "tool_use"
             /\ content[off + k].id = r.tool_calls[k].id
             /\ content[off + k].name = r.tool_calls[k].name
             /\ content[off + k].input.text = r.tool_calls[k].arguments
        /\ off + n = 0 => content = << [type |-> "text", text |-> ""] >>

\* a message with neither text nor tool call was translated, its content
\* being the fallback block
C23_Witness ==
  /\ anthropicResponse # Absent
  /\ openaiResponse.choice
  /\ openaiResponse.content = ""
  /\ openaiResponse.tool_calls = << >>
  /\ Len(anthropicResponse.content) = 1

\* ------------------------------------------------------------------- C24
\* C24: a backend response without choices[0] (choices missing or empty) is
\* translated to an error object of type "error" that carries an error type
\* and a message, and neither a usage nor a content is computed for it
C24_NoChoiceGivesError ==
  (anthropicResponse # Absent /\ ~openaiResponse.choice) =>
    /\ anthropicResponse.type = "error"
    /\ DOMAIN anthropicResponse = {"type", "error_type", "message"}
    /\ anthropicResponse.error_type = "api_error"
    /\ anthropicResponse.message # ""

\* a response without choices whose usage carries a cost was translated
C24_Witness ==
  /\ anthropicResponse # Absent
  /\ ~openaiResponse.choice
  /\ openaiResponse.usage.present
  /\ openaiResponse.usage.cost > 0
  /\ anthropicResponse.type = "error"

\* ------------------------------------------------------------------- C25
\* a lookup calls the remote endpoint only when the cache is empty or as
\* old as the TTL
C25_FreshCacheNotRefetched ==
  \A l \in LookupIds :
    (lookups[l].pc # "fetching" /\ lookups'[l].pc = "fetching") =>
      \/ modelPricingCache = Null
      \/ now - pricingCacheTime >= PRICING_CACHE_TTL

\* no two lookups issued less than one TTL apart have both stored a fetched
\* table
C25_OneRefreshPerWindow ==
  \A l1, l2 \in LookupIds :
    (l1 # l2 /\ lookups[l1].refreshed /\ lookups[l2].refreshed) =>
      \/ lookups[l1].at - lookups[l2].at >= PRICING_CACHE_TTL
      \/ lookups[l2].at - lookups[l1].at >= PRICING_CACHE_TTL

FallbackFor(model) ==
  LET keys == { k \in DOMAIN MODEL_PRICING_FALLBACK :
                  ToLowerCase(k) = ToLowerCase(model) }
  IN  IF keys = {} THEN << >>
      ELSE << MODEL_PRICING_FALLBACK[CHOOSE k \in keys : TRUE] >>

\* a finished lookup whose fetch failed, or whose table does not list the
\* model, returned the fallback entry with cache-read 0.1 x input and
\* cache-write 1.25 x input, or null when there is no such entry
C26_FallbackReturned ==
  \A l \in LookupIds :
    LET dynamic == lookups[l].dynamicPricing
        model == lookups[l].model
        result == lookups[l].result
        listed == dynamic # Null /\ model \in DOMAIN dynamic.entries
        fallback == FallbackFor(model)
    IN  (lookups[l].pc = "done" /\ ~listed) =>
          IF fallback # << >>
            THEN /\ result.known
                 /\ result.input = fallback[1].input
                 /\ result.output = fallback[1].output
                 /\ 10 * result.cacheRead = result.input
                 /\ 100 * result.cacheWrite = 125 * result.input
          ELSE result = NoPricing

\* null is returned only for a model that is in neither table
C26_NullOnlyWhenUnlisted ==
  \A l \in LookupIds :
    (lookups[l].pc = "done" /\ lookups[l].result = NoPricing) =>
      /\ FallbackFor(lookups[l].model) = << >>
      /\ \/ lookups[l].dynamicPricing = Null
         \/ lookups[l].model \notin DOMAIN lookups[l].dynamicPricing.entries

\* a fetch that fails leaves the cached table and its time as they were
C26_FailedFetchKeepsCache ==
  \A l \in LookupIds :
    (lookups[l].pc = "fetching" /\ lookups'[l].pc = "done"
       /\ lookups'[l].dynamicPricing = Null) =>
      UNCHANGED << modelPricingCache, pricingCacheTime >>

\* C26: when the remote fetch fails, or succeeds without listing the model,
\* getModelPricing returns the static fallback entry whose key is the model
\* id whatever the case of its letters (cache-read 0.1 x input, cache-write
\* 1.25 x input); it returns null only when the model is in neither table;
\* a failed fetch leaves the cached table and its timestamp unchanged
C26_FallbackOnFailure ==
  /\ [](C26_FallbackReturned /\ C26_NullOnlyWhenUnlisted)
  /\ [][C26_FailedFetchKeepsCache]_vars

\* a fetch failed while an expired table listing the model was cached, and
\* the lookup of a model id in capitals returned the fallback entry
C26_Witness ==
  \E l \in LookupIds :
    /\ lookups[l].pc = "done"
    /\ lookups[l].dynamicPricing = Null
    /\ lookups[l].model = "Anthropic/Claude-Sonnet-4.5"
    /\ lookups[l].result = SonnetPricing
    /\ modelPricingCache # Null
    /\ now - pricingCacheTime >= PRICING_CACHE_TTL

\* ------------------------------------------------------------------- C27
\* a transformer run alone on the chunks: the state after the last of them
RECURSIVE RunAlone(_, _, _)
RunAlone(s, chunks, p) ==
  IF chunks = << >> THEN s
  ELSE RunAlone([ProcessLines(s, Head(chunks), p) EXCEPT !.returned = FALSE],
                Tail(chunks), p)

\* C27: whatever the interleaving of the chunks of two streams, each
\* transformer has emitted exactly the events it emits when it is run alone
\* on its own chunks, and its other closure variables are those of that run
C27_StreamsIsolated ==
  \A i \in InstanceIds :
    instances[i].state
      = RunAlone(NewState, instances[i].chunks, instances[i].pricing)

\* both transformers have processed chunks and sent message_start, the
\* events of the one differing from those of the other
C27_Witness ==
  /\ Len(instances[1].chunks) = 2
  /\ Len(instances[2].chunks) = 1
  /\ instances[1].state.sentStart
  /\ instances[2].state.sentStart
  /\ instances[1].state.out # instances[2].state.out

\* ------------------------------------------------------------------- C28
\* C28: when the client asked for a stream and the backend answers with a
\* body that is no event stream, the client receives exactly one error SSE
\* event of type api_error that carries the backend's error message (the
\* error.message of a JSON body, the text of any other body), with the
\* backend's status code, and the Stream Transcoder is not started
C28_NonStreamAnswerIsOneErrorEvent ==
  (/\ handlerAt = "done"
   /\ request.path = "/v1/messages"
   /\ request.stream
   /\ backendCalls # << >>
   /\ backendCalls[1].kind = "response"
   /\ ~backendCalls[1].eventStream) =>
    LET reply == backendCalls[1]
        response == responses[1]
    IN  /\ Len(responses) = 1
        /\ response.kind = "sse"
        /\ Len(response.events) = 1
        /\ response.events[1].event = "error"
        /\ response.events[1].type = "error"
        /\ response.events[1].error_type = "api_error"
        /\ reply.body.message # "" =>
             response.events[1].message = reply.body.message
        /\ (~reply.body.json /\ reply.body.text # "") =>
             response.events[1].message = reply.body.text
        /\ response.events[1].message # ""
        /\ response.status = reply.status
        /\ ~transcoderStarted

\* a streamed request was answered with the one error event that carries
\* the message and the status of the backend's JSON error
C28_Witness ==
  /\ handlerAt = "done"
  /\ request.path = "/v1/messages"
  /\ request.stream
  /\ Len(backendCalls) = 1
  /\ backendCalls[1].kind = "response"
  /\ backendCalls[1].body.message = "Rate limited"
  /\ responses = << SseError("Rate limited", 429) >>
  /\ ~transcoderStarted

\* ------------------------------------------------------------------- C29
\* C29: nothing is retried: for a /v1/messages request the backend is called
\* at most once and, once the handler has returned, exactly one response
\* was returned whatever the call ended in: the translated success (a
\* stream through the transcoder, or the translated JSON with status 200),
\* the backend's error as an api_error with its status code, or the 502
\* envelope when the call failed or its body could not be read as JSON
C29_OneCallOneResponse ==
  (request # Absent /\ request.path = "/v1/messages") =>
    /\ Len(backendCalls) <= 1
    /\ Len(responses) <= 1
    /\ handlerAt # "done" => responses = << >>
    /\ handlerAt = "done" => Len(responses) = 1
    /\ (handlerAt = "done" /\ backendCalls # << >>) =>
         LET reply == backendCalls[1]
             response == responses[1]
         IN  IF reply.kind = "failure"
               THEN /\ response.kind = "json"
                    /\ response.status = 502
                    /\ response.shape = "anthropic"
                    /\ response.type = "api_error"
             ELSE IF request.stream /\ reply.eventStream
               THEN /\ response.kind = "stream"
                    /\ response.status = reply.status
             ELSE IF request.stream
               THEN /\ response.kind = "sse"
                    /\ response.events[1].error_type = "api_error"
                    /\ response.status = reply.status
             ELSE IF ~Ok(reply.status)
               THEN /\ response.kind = "json"
                    /\ response.shape = "anthropic"
                    /\ response.type = "api_error"
                    /\ response.status = reply.status
             ELSE IF reply.body.json
               THEN response.kind = "translated" /\ response.status = 200
             ELSE /\ response.kind = "json"
                  /\ response.status = 502
                  /\ response.shape = "anthropic"
                  /\ response.type = "api_error"

\* the one call of the backend failed and the 502 envelope was returned
C29_Witness ==
  /\ handlerAt = "done"
  /\ request.path = "/v1/messages"
  /\ backendCalls = << TransportFailure >>
  /\ responses = << ProxyError >>

\* ------------------------------------------------------------------- C30
\* C30: a POST to /v1/chat/completions or to /v1/messages that carries an
\* API key and a body that is no JSON is answered with status 400 and an
\* invalid-request error in the error shape of the endpoint (OpenAI's for
\* the former, Anthropic's for the latter), and the backend is not called
C30_InvalidJsonRejected ==
  (/\ request # Absent
   /\ request.method = "POST"
   /\ request.hasKey
   /\ request.body = "invalid") =>
    /\ backendCalls = << >>
    /\ handlerAt = "done" =>
         /\ Len(responses) = 1
         /\ responses[1].status = 400
         /\ responses[1].kind = "json"
         /\ responses[1].type = "invalid_request_error"
         /\ responses[1].shape = IF request.path = "/v1/messages"
                                   THEN "anthropic" ELSE "openai"

\* ------------------------------------------------------------------- C31
\* the position of the first event of type t in seq, 0 when there is none
FirstOfType(seq, t) ==
  IF \E k \in 1..Len(seq) : seq[k].type = t
    THEN CHOOSE k \in 1..Len(seq) :
           /\ seq[k].type = t
           /\ \A j \in 1..(k - 1) : seq[j].type # t
  ELSE 0
CarriesFinish(line) ==
  line.kind = "json" /\ line.choice /\ line.finish_reason # ""
IsToolStart(e) == e.type = "content_block_start" /\ e.block = "tool_use"

\* C31: the first finish_reason of a stream makes the transcoder emit
\* content_block_stop for the text block first, if one was opened, and then
\* for each opened tool block in the order the blocks were opened, one next
\* to the other; no other content_block_stop is emitted, so that a later
\* finish_reason closes nothing
C31_ClosingPassOnce ==
  LET stops == OfType(out, "content_block_stop")
      first == FirstOfType(out, "content_block_stop")
      before == SubSeq(out, 1, first - 1)
      toolStarts == SelectSeq(before, IsToolStart)
      textOpened == \E k \in 1..Len(before) : before[k] = TextBlockStart
  IN  /\ (\E k \in 1..Len(fed) : CarriesFinish(fed[k])) <=> stops # << >>
      /\ stops # << >> =>
           /\ stops = (IF textOpened THEN << BlockStop(0) >> ELSE << >>)
                        \o [k \in 1..Len(toolStarts) |->
                              BlockStop(toolStarts[k].index)]
           /\ SubSeq(out, first, first + Len(stops) - 1) = stops

\* a text block and two tool blocks were closed by the first finish_reason
\* and a second finish_reason has been processed since
C31_Witness ==
  /\ fed = << TextLine("Hi"), TwoToolsLine, FinishLine("tool_calls"),
              FinishLine("stop") >>
  /\ OfType(out, "content_block_stop")
       = << BlockStop(0), BlockStop(1), BlockStop(2) >>

\* ------------------------------------------------------------------- C32
\* the name fragments the tool calls tcs carry for the tool index, joined
RECURSIVE CallFragments(_, _)
CallFragments(tcs, index) ==
  IF tcs = << >> THEN ""
  ELSE (IF Head(tcs).index = index THEN Head(tcs).name ELSE "")
         \o CallFragments(Tail(tcs), index)
\* the name fragments the lines carry for the tool index, joined
RECURSIVE NameFragments(_, _)
NameFragments(lines, index) ==
  IF lines = << >> THEN ""
  ELSE (IF Head(lines).kind = "json" /\ Head(lines).choice
          THEN CallFragments(Head(lines).tool_calls, index) ELSE "")
         \o NameFragments(Tail(lines), index)
\* the tool calls with an id among those of the lines fed
FedCallsWithId ==
  { tc \in UNION { {fed[k].tool_calls[j] : j \in 1..Len(fed[k].tool_calls)} :
                     k \in {i \in 1..Len(fed) : CarriesChoice(fed[i])} } :
      tc.id # "" }

\* C32: the name in a tool_use content_block_start is the concatenation, in
\* arrival order, of every name fragment the backend sent for the tool index
\* of that call, and each tool-call id of the backend has exactly one
\* content_block_start
C32_NamesAccumulated ==
  \A tc \in FedCallsWithId :
    LET starts == SelectSeq(out, LAMBDA e : IsToolStart(e) /\ e.id = tc.id)
    IN  /\ Len(starts) = 1
        /\ starts[1].name = NameFragments(fed, tc.index)

\* ------------------------------------------------------------------- C33
\* a step of transform leaves the price cache, its time and the lookups as
\* they are: it starts no fetch
C33_TransformFetchesNothing ==
  (fed' # fed \/ out' # out \/ buffer' # buffer) =>
    UNCHANGED << modelPricingCache, pricingCacheTime, lookups >>

\* a step of transform emits what the lines give with the pricing that the
\* handler's lookup returned before the stream began
C33_SetupPricingUsed ==
  fed' # fed =>
    /\ pricing = lookups[1].result
    /\ out' = ProcessLines(State, NewLines, lookups[1].result).out

\* C33: pricing is fixed at stream setup: no step of transform triggers a
\* pricing fetch, and what the sentinel's estimate uses is the pricing
\* obtained once before streaming began, also when the price cache is
\* refreshed or expires while the stream is open
C33_PricingFixedAtSetup ==
  /\ [][C33_TransformFetchesNothing]_vars
  /\ [][C33_SetupPricingUsed]_vars
  /\ [][pricing # Absent => pricing' = pricing]_vars

\* the stream has ended with the estimate of the pricing of its setup,
\* while the price cache, refreshed since, gives another pricing
C33_Witness ==
  /\ pricing # Absent
  /\ pricing.known
  /\ Occurs(DoneLine, fed)
  /\ Last(out) = MessageStop
  /\ out[Len(out) - 1].cache_read_input_tokens = 500
  /\ modelPricingCache # Null
  /\ pricingCacheTime > lookups[1].at
  /\ ResolvePricing(modelPricingCache, StreamModel) # pricing

\* ------------------------------------------------------------------- C34
\* the block of index i is open after the first k events: its
\* content_block_start is among them and no content_block_stop of it
OpenAt(seq, i, k) ==
  /\ \E j \in 1..k :
       seq[j].type = "content_block_start" /\ seq[j].index = i
  /\ \A j \in 1..k :
       ~(seq[j].type = "content_block_stop" /\ seq[j].index = i)

\* C34: every content_block_delta is for a block that is open, its
\* content_block_start emitted and no content_block_stop yet; every
\* input_json_delta carries the index of the content_block_start of its
\* tool call, also when a text block is opened between the two; no
\* content_block_delta follows the closing pass
C34_DeltasInOpenBlocks ==
  \A k \in 1..Len(out) :
    out[k].type = "content_block_delta" =>
      /\ OpenAt(out, out[k].index, k)
      /\ out[k].delta = "input_json_delta" =>
           \E j \in 1..k : /\ IsToolStart(out[j])
                            /\ out[j].index = out[k].index
      /\ \A j \in 1..k : out[j].type # "content_block_stop"

\* ------------------------------------------------------------------- C35
\* the transcoder fed the lines ls one chunk a line
RECURSIVE LineByLine(_, _, _)
LineByLine(s, ls, p) ==
  IF ls = << >> THEN s
  ELSE LineByLine([ProcessLine(s, Head(ls), p) EXCEPT !.returned = FALSE],
                  Tail(ls), p)

\* C35: the emitted events depend on the bytes of the backend stream alone,
\* not on how they are cut into chunks: however the lines arrived, cut
\* inside a line or between lines, before or after the sentinel, the output
\* is that of the same lines arriving one chunk a line
C35_ChunkingIrrelevant ==
  out = LineByLine(NewState, fed, pricing).out

\* ------------------------------------------------------------------- C36
\* C36: every stream ends well-formed: once message_start has been emitted
\* and the backend's stream has ended, message_delta and message_stop are
\* eventually emitted, whether or not the backend sent the sentinel and
\* whether or not its last line ended with a newline
C36_StreamTerminated ==
  (backendEnded /\ Count(out, "message_start") > 0)
    ~> (Count(out, "message_delta") > 0 /\ Count(out, "message_stop") > 0)

\* ------------------------------------------------------------------- C37
\* the stream has reported the usage of the response and then the sentinel
UsageThenSentinel ==
  \E k \in 1..Len(fed) :
    /\ fed[k] = DoneLine
    /\ \A j \in 1..(k - 1) : fed[j] # DoneLine
    /\ \E j \in 1..(k - 1) : fed[j] = PathUsageLine

\* the four counts of a usage object
FourCounts(u) ==
  << u.input_tokens, u.output_tokens, u.cache_creation_input_tokens,
     u.cache_read_input_tokens >>

\* C37: the two paths account usage alike: for the same final backend usage
\* and the same pricing, the four counts of the stream's final message_delta
\* are the four counts of the usage of the translated response, also when
\* prompt_tokens is 0 or the pricing is unknown
C37_PathsAgree ==
  (anthropicResponse # Absent /\ UsageThenSentinel)
    => FourCounts(OfType(out, "message_delta")[1])
         = FourCounts(anthropicResponse.usage)

\* ------------------------------------------------------------------- C38
\* the cache counts of a usage object, and all its input-side counts
CacheCounts(u) == u.cache_read_input_tokens + u.cache_creation_input_tokens
InputSide(u) == u.input_tokens + CacheCounts(u)

ConservedUpTo(u, prompt) ==
  IF CacheCounts(u) <= prompt THEN InputSide(u) = prompt
  ELSE u.input_tokens = 0 /\ InputSide(u) > prompt

====
